---- MODULE Spec2Model ----
(***************************************************************************)
(* Credit calculation, cross-validation and audit trail of the Lumix dMRV  *)
(* engine (src/app/handlers, src/app/routes).                              *)
(*                                                                         *)
(* Numbers.  The code computes in floating point; the model computes the   *)
(* same formulas exactly, on integers with a fixed unit per quantity:      *)
(*   kwh            kWh                                                    *)
(*   tonnes         1/10000 tonne      (kwh * 1.2 / 1000 = kwh * 12 units) *)
(*   irradiance     1/24 W/m^2         (value * 1000 / 24 = value * 1000)  *)
(*   theoretical    1/24 kWh                                               *)
(*   max_theoretical 1/240 kWh                                             *)
(*   correlation    the square of the coefficient as a fraction n/d        *)
(* calculate_correlation called on its own is also evaluated as the floats *)
(* evaluate it, in binary floating point with a short significand          *)
(* (calculate_correlation_float).                                          *)
(* Rows of a table are modelled without id and timestamps of creation,     *)
(* except where another table refers to the id (credits, inverters: the    *)
(* id is the position in the sequence).                                    *)
(***************************************************************************)
EXTENDS Integers, Sequences, FiniteSets, Bags, TLC

\* ---------------------------------------------------------------- bounds
MaxReadings == 3
MaxSatellite == 1
MaxCreditAudits == 1
MaxStreamRows == 4
MaxUploadLines == 2
MaxBatchSize == 2
MaxCredits == 2
MaxTasks == 2
MaxUnaudited == 2
MaxDayReadings == 48
MaxDaySatellite == 2
MaxDayAudits == 2
MaxKwh == 20
MaxPayloadItems == 3
MaxSeriesLen == 3
\* The bits of the significand of a float of the model (53 in the program).
SignificandBits == 3

\* ------------------------------------------------------- program constants
EMISSION_FACTOR_KG_PER_KWH_TENTHS == 12
MIN_CORRELATION_THRESHOLD_PCT == 90
SAFETY_MARGIN_TENTHS == 12
HOURS_PER_DAY == 24
AREA_M2_PER_KW == 5
PANEL_EFFICIENCY_INV == 5
DEFAULT_BATCH_SIZE == 1000

\* ------------------------------------------------------------ input sets
\* The ids requests name: KnownIds are the ids inverters get when created, the
\* other id is never the id of an inverter.
KnownIds == {1}
InverterIds == {1, 2}
UnknownId == CHOOSE i \in InverterIds : i \notin KnownIds
CreditDates == {1}
GpsValues == {<<6, 3>>}
CapacityValues == {10}
Statuses == {"PENDING", "VERIFIED", "FLAGGED", "SUBMITTED"}

\* A timestamp is a day and an hour of that day (minutes are not modelled).
\* A timestamp string either parses (valid) to a timestamp or does not.
TimestampString(valid, day, hour) == [valid |-> valid, day |-> day, hour |-> hour]
\* A kwh field is a number or something float() rejects.
KwhField(numeric, value) == [numeric |-> numeric, value |-> value]

\* entity_id = None of an audit row (ids start at 1).
NoId == 0

VARIABLES
    inverters,   \* table inverters: sequence of rows, id = position
    readings,    \* table inverterreading: bag of rows
    satellite,   \* table satellitereading: bag of rows
    credits,     \* table carbon_credits: sequence of rows, id = position
    audit,       \* table auditlog: sequence of rows, in order of insertion
    pc,          \* ingest_readings_stream: position of the running call
    rows_iter,   \* ingest_readings_stream: the iterator, its rows and how many it has given
    batch_size,  \* ingest_readings_stream: its batch_size argument
    batch,       \* ingest_readings_stream: the rows buffered in batch
    todo,        \* _process_batch: rows of batch_rows not yet visited
    session_new, \* the session's pending objects, not yet committed
    created,     \* ingest_readings_stream: created_readings
    commits,     \* ingest_readings_stream: commits done by the running call
    call,        \* a function of the handlers called on its own: its name and arguments
    result,      \* what the call returned, once it has returned
    tasks,       \* calculate_daily_credit: the locals of each request being served
    unaudited    \* the audit entries of requests whose first commit is done

dbvars == <<inverters, readings, satellite, credits, audit>>
streamvars == <<pc, rows_iter, batch_size, batch, todo, session_new, created, commits>>
purevars == <<call, result>>
stepvars == <<tasks, unaudited>>
vars == <<inverters, readings, satellite, credits, audit,
          pc, rows_iter, batch_size, batch, todo, session_new, created, commits,
          call, result, tasks, unaudited>>

\* A call of a function: its name and the tuple of its arguments; no call.
Call(fn, args) == <<fn, args>>
NoCall == <<>>
\* The call has not returned; it returned a value.
NotReturned == <<>>
ReturnedValue(returned) == <<returned>>

\* ------------------------------------------------------------ rows and dicts
\* Rows of the tables inverters, inverterreading and satellitereading.
Inverter(gps, capacity_kw) == [gps |-> gps, capacity_kw |-> capacity_kw]
InverterReading(inverter_id, timestamp, kwh) ==
    [inverter_id |-> inverter_id, timestamp |-> timestamp, kwh |-> kwh]
SatelliteReading(gps, timestamp, irradiance) ==
    [gps |-> gps, timestamp |-> timestamp, irradiance |-> irradiance]

\* Optional[str] flagged_reason: None, or what the message says.
NoReason == [kind |-> "None"]
\* Optional[float] correlation: None, or the value.
NoCorrelation == [none |-> TRUE]
\* A row of the table carbon_credits with the defaults of its optional fields.
CarbonCredit(inverter_id, credit_date, tonnes, status) ==
    [inverter_id |-> inverter_id, credit_date |-> credit_date, tonnes |-> tonnes,
     status |-> status, correlation |-> NoCorrelation, flagged_reason |-> NoReason]

\* The locals of a request of calculate_daily_credit: where it is (idle: no
\* request; summed: total_kwh is read; found: the credit is looked up;
\* returned), its arguments, the credit it loaded (<<>> for None, else the id
\* and the row as loaded) and total_kwh.
Task(at, inverter_id, credit_date, credit, total_kwh) ==
    [pc |-> at, inverter_id |-> inverter_id, credit_date |-> credit_date,
     credit |-> credit, total_kwh |-> total_kwh]
IdleTask == Task("idle", 0, 0, <<>>, 0)
RECURSIVE Repeat(_, _)
Repeat(x, n) == IF n = 0 THEN <<>> ELSE Append(Repeat(x, n - 1), x)
NoTasks == Repeat(IdleTask, MaxTasks)

\* A row the iterator yields: a dict with inverter_id, timestamp, kwh; or the
\* iterator raises instead of yielding it (raises = TRUE).
Row(inverter_id, timestamp, kwh, raises) ==
    [inverter_id |-> inverter_id, timestamp |-> timestamp, kwh |-> kwh, raises |-> raises]

\* ---------------------------------------------------------------- helpers
RECURSIVE SumSeq(_)
SumSeq(s) == IF s = <<>> THEN 0 ELSE Head(s) + SumSeq(Tail(s))

RECURSIVE BagSum(_, _)
\* Sum of f(row) * copies over the rows of a bag b restricted to the set S.
BagSum(b, S) ==
    IF S = {} THEN 0
    ELSE LET r == CHOOSE x \in S : TRUE
         IN  r.kwh * b[r] + BagSum(b, S \ {r})

\* A payload is a dict, modelled as the sequence of its <<key, value>> items in
\* insertion order (keys are distinct).
\* The keys of the payloads, in the order sorted() puts strings (by code point).
SortedKeys ==
    <<"capacity_kw", "correlation", "date", "gps_lat", "gps_lon", "inverter_id", "kwh",
      "reason", "status", "timestamp">>
KeyRank(name) == CHOOSE n \in 1..Len(SortedKeys) : SortedKeys[n] = name
RECURSIVE InsertItem(_, _)
\* The sorted items with one more item put at its place.
InsertItem(sorted, item) ==
    IF sorted = <<>> THEN <<item>>
    ELSE IF KeyRank(item[1]) < KeyRank(Head(sorted)[1]) THEN <<item>> \o sorted
         ELSE <<Head(sorted)>> \o InsertItem(Tail(sorted), item)
RECURSIVE json_dumps(_)
\* json.dumps(payload, sort_keys=True, default=str): the items in the order of
\* their keys, whatever the order of insertion.
json_dumps(payload) ==
    IF payload = <<>> THEN <<>>
    ELSE InsertItem(json_dumps(SubSeq(payload, 1, Len(payload) - 1)), payload[Len(payload)])
\* A serialization without sort_keys: the items in insertion order.
hash_payload_unsorted(payload) == [sha256 |-> payload]
\* hash_payload: hashlib.sha256(json.dumps(...).encode()).hexdigest(); SHA-256 is
\* taken to be collision-free, so the digest stands for the string it is of.
hash_payload(payload) == [sha256 |-> json_dumps(payload)]

AuditLog(payload_hash, action, entity_type, entity_id) ==
    [payload_hash |-> payload_hash, action |-> action,
     entity_type |-> entity_type, entity_id |-> entity_id]

\* session.get(Inverter, id)
InverterExists(invs, id) == id \in 1..Len(invs)

\* ------------------------------------------------- ingestion: rows and session
\* datetime.fromisoformat of a string that parses
fromisoformat(ts) == [day |-> ts.day, hour |-> ts.hour]

EmptySession == [readings |-> <<>>, audit |-> <<>>]

\* An iterator over rows: the rows and the number of them it has given so far
\* (a row that raises counts as given: the generator is finished by it).
Iterator(rows) == [rows |-> rows, given |-> 0]
Exhausted(it) == it.given >= Len(it.rows)
NextRow(it) == it.rows[it.given + 1]
Advance(it) == [it EXCEPT !.given = it.given + 1]

\* The body of the loop of _process_batch raises for this row.
RowRaises(invs, row) ==
    \/ ~InverterExists(invs, row.inverter_id)
    \/ ~row.timestamp.valid
    \/ ~row.kwh.numeric

\* A loop body that adds the reading and forgets its audit entry.
SessionAddRowUnaudited(session, row) ==
    [readings |-> Append(session.readings,
                         InverterReading(row.inverter_id,
                                         fromisoformat(row.timestamp),
                                         row.kwh.value)),
     audit |-> session.audit]
\* The body of the loop of _process_batch for a row that does not raise:
\* session.add(reading), session.add(audit).
SessionAddRow(session, row) ==
    [readings |-> Append(session.readings,
                         InverterReading(row.inverter_id,
                                         fromisoformat(row.timestamp),
                                         row.kwh.value)),
     audit |-> Append(session.audit,
                      AuditLog(hash_payload(<< <<"inverter_id", row.inverter_id>>,
                                               <<"timestamp", row.timestamp>>,
                                               <<"kwh", row.kwh>> >>),
                               "reading_ingested", "inverter_reading", NoId))]

RECURSIVE SeqToBag(_)
SeqToBag(s) == IF s = <<>> THEN EmptyBag ELSE SetToBag({Head(s)}) (+) SeqToBag(Tail(s))

\* A call that puts the readings of each batch in front of those it has.
extend_in_front(created_readings, added) == added \o created_readings
\* created_readings.extend(added)
extend(created_readings, added) == created_readings \o added

\* A test against the default size, whatever batch_size the call was given.
BatchFullAtDefault(batch_rows, size) == Len(batch_rows) >= DEFAULT_BATCH_SIZE
\* A batch that is processed only when it holds more than batch_size rows.
BatchOverfull(batch_rows, size) == Len(batch_rows) > size
\* if len(batch) >= batch_size
BatchFull(batch_rows, size) == Len(batch_rows) >= size

\* One step of ingest_readings_stream on the record s of its locals, the
\* session and the tables it writes.
StreamStep(s) ==
    CASE s.pc = "iterate" ->
           IF Exhausted(s.rows_iter)
           THEN IF s.batch # <<>>
                THEN [s EXCEPT !.pc = "process_rest", !.todo = s.batch]
                ELSE [s EXCEPT !.pc = "done"]
           ELSE LET row == NextRow(s.rows_iter) IN
                IF row.raises
                THEN [s EXCEPT !.pc = "raised", !.rows_iter = Advance(s.rows_iter)]
                ELSE LET b == Append(s.batch, row) IN
                     IF BatchFull(b, s.batch_size)
                     THEN [s EXCEPT !.rows_iter = Advance(s.rows_iter), !.batch = b,
                                    !.pc = "process", !.todo = b]
                     ELSE [s EXCEPT !.rows_iter = Advance(s.rows_iter), !.batch = b]
      [] s.pc \in {"process", "process_rest"} ->
           IF s.todo = <<>>
           THEN \* await session.commit(); return added
                LET committed ==
                      [s EXCEPT !.readings = s.readings (+) SeqToBag(s.session_new.readings),
                                !.audit = s.audit \o s.session_new.audit,
                                !.created = extend(s.created, s.session_new.readings),
                                !.commits = s.commits + 1,
                                !.session_new = EmptySession]
                IN  IF s.pc = "process"
                    THEN [committed EXCEPT !.pc = "iterate", !.batch = <<>>]
                    ELSE [committed EXCEPT !.pc = "done"]
           ELSE LET row == Head(s.todo) IN
                IF RowRaises(s.inverters, row)
                THEN [s EXCEPT !.pc = "raised"]
                ELSE [s EXCEPT !.todo = Tail(s.todo),
                               !.session_new = SessionAddRow(s.session_new, row)]
      [] OTHER -> s

RECURSIVE RunStream(_)
\* ingest_readings_stream run until it returns or raises.
RunStream(s) == IF s.pc \in {"done", "raised"} THEN s ELSE RunStream(StreamStep(s))

\* A session whose close commits what is pending.
SessionCloseCommitting(s) ==
    [s EXCEPT !.readings = s.readings (+) SeqToBag(s.session_new.readings),
              !.audit = s.audit \o s.session_new.audit,
              !.session_new = EmptySession]
\* get_session: leaving "async with AsyncSessionLocal() as session" closes the
\* session of the request, which discards its pending, uncommitted objects.
SessionClose(s) == [s EXCEPT !.session_new = EmptySession]

\* The locals of a call of ingest_readings_stream at its first statement.
StreamStart(invs, rds, aud, rows, bsize) ==
    [inverters |-> invs, readings |-> rds, audit |-> aud,
     pc |-> "iterate", rows_iter |-> Iterator(rows), batch_size |-> bsize, batch |-> <<>>,
     todo |-> <<>>, session_new |-> EmptySession, created |-> <<>>, commits |-> 0]

\* ------------------------------------------------------------------ credits
RECURSIVE Gcd(_, _)
Gcd(a, b) == IF b = 0 THEN a ELSE Gcd(b, a % b)

\* The coefficient whose square is n/d (n >= 0, d > 0), in lowest terms.
Coefficient(n, d) == IF n = 0 THEN [n |-> 0, d |-> 1]
                     ELSE [n |-> n \div Gcd(n, d), d |-> d \div Gcd(n, d)]
ZeroCorrelation == Coefficient(0, 1)

\* select(CarbonCredit).where(inverter_id, credit_date) ... .first(): the id of
\* the first matching row, 0 when there is none.
FirstCredit(cs, inverter_id, credit_date) ==
    LET hits == {k \in 1..Len(cs) : cs[k].inverter_id = inverter_id
                                    /\ cs[k].credit_date = credit_date}
    IN  IF hits = {} THEN 0 ELSE CHOOSE k \in hits : \A j \in hits : k <= j

\* A selection by the timestamp alone, of the readings of every inverter.
DayReadingsOfAnyInverter(rds, inverter_id, credit_date) ==
    {r \in BagToSet(rds) : r.timestamp.day = credit_date}
\* The readings of the inverter whose timestamp lies in
\* [combine(date, min.time()), combine(date, max.time())].
DayReadings(rds, inverter_id, credit_date) ==
    {r \in BagToSet(rds) : r.inverter_id = inverter_id /\ r.timestamp.day = credit_date}

\* select(func.sum(InverterReading.kwh)) ... .scalar() or 0.0
TotalKwh(rds, inverter_id, credit_date) ==
    BagSum(rds, DayReadings(rds, inverter_id, credit_date))

\* A conversion that leaves out the division by 1000 and so gives kilograms.
calculate_co2_avoided_kg(kwh) == kwh * EMISSION_FACTOR_KG_PER_KWH_TENTHS * 1000
\* tonnes = kwh * EMISSION_FACTOR_KG_PER_KWH / 1000.0, in 1/10000 tonne
calculate_co2_avoided(kwh) == kwh * EMISSION_FACTOR_KG_PER_KWH_TENTHS

\* A calculation that puts an existing credit back to PENDING.
CalculateStatusReset(credit) == "PENDING"
\* The status calculate_daily_credit leaves on an existing credit.
CalculateStatus(credit) == credit.status

\* A calculation that does not look for an existing credit and always inserts.
CalculateCreditsInsert(cs, rds, inverter_id, credit_date) ==
    Append(cs, CarbonCredit(inverter_id, credit_date,
                            calculate_co2_avoided(TotalKwh(rds, inverter_id, credit_date)),
                            "PENDING"))

\* A calculation that adds the day's tonnage to the tonnage already stored.
CalculateCreditsAccumulate(cs, rds, inverter_id, credit_date) ==
    LET tonnes == calculate_co2_avoided(TotalKwh(rds, inverter_id, credit_date))
        k == FirstCredit(cs, inverter_id, credit_date)
    IN  IF k # 0
        THEN [cs EXCEPT ![k].tonnes = cs[k].tonnes + tonnes]
        ELSE Append(cs, CarbonCredit(inverter_id, credit_date, tonnes, "PENDING"))

\* The table carbon_credits after calculate_daily_credit(inverter_id, credit_date).
CalculateCredits(cs, rds, inverter_id, credit_date) ==
    LET tonnes == calculate_co2_avoided(TotalKwh(rds, inverter_id, credit_date))
        k == FirstCredit(cs, inverter_id, credit_date)
    IN  IF k # 0
        THEN [cs EXCEPT ![k] = [cs[k] EXCEPT !.tonnes = tonnes,
                                             !.status = CalculateStatus(cs[k])]]
        ELSE Append(cs, CarbonCredit(inverter_id, credit_date, tonnes, "PENDING"))

\* calculate_daily_credit, statement by statement.  Each await is a point where
\* another request can run; every select sees what is committed at its time.
\* result = await session.execute(statement); total_kwh = result.scalar() or 0.0
CalculateSum(task, rds, inverter_id, credit_date) ==
    Task("summed", inverter_id, credit_date, <<>>, TotalKwh(rds, inverter_id, credit_date))
\* credit = existing_credit.scalars().first()
CalculateLookup(task, cs) ==
    LET k == FirstCredit(cs, task.inverter_id, task.credit_date)
    IN  [task EXCEPT !.pc = "found", !.credit = IF k = 0 THEN <<>> ELSE <<k, cs[k]>>]
\* A commit that puts the credit it updates back to PENDING, without
\* correlation and reason.
CalculateCommitResetting(cs, task) ==
    LET tonnes == calculate_co2_avoided(task.total_kwh)
    IN  IF task.credit # <<>>
        THEN [cs EXCEPT ![task.credit[1]] =
                 CarbonCredit(task.inverter_id, task.credit_date, tonnes, "PENDING")]
        ELSE Append(cs, CarbonCredit(task.inverter_id, task.credit_date, tonnes, "PENDING"))
\* if credit: credit.tonnes = tonnes ... else: session.add(CarbonCredit(...));
\* await session.commit().  The UPDATE of the flush sets, on the row of the id,
\* the columns whose value on the loaded object is no longer the loaded one
\* (tonnes when it differs, updated_at); the other columns keep what is committed.
CalculateCommit(cs, task) ==
    LET tonnes == calculate_co2_avoided(task.total_kwh)
    IN  IF task.credit # <<>>
        THEN IF tonnes = task.credit[2].tonnes THEN cs
             ELSE [cs EXCEPT ![task.credit[1]].tonnes = tonnes]
        ELSE Append(cs, CarbonCredit(task.inverter_id, task.credit_date, tonnes, "PENDING"))

\* ------------------------------------------------------ provider and parsing
\* What fetch_nasa_power_data gives: it raises (fetch_ok = FALSE: timeout, HTTP
\* error status, no JSON), or returns a dict; has_parameter says whether
\* properties.parameter.ALLSKY_SFC_SW_DWN is there, entries are its items in order.
\* An entry's key is "date8" (8 digits of a date), "junk8" (8 characters that
\* are no date) or "short" (another length); its value is a number (kWh/m2/day),
\* null, or text that float() rejects.
ProviderEntry(key, day, kind, v) == [day |-> day, kind |-> kind, key |-> key, v |-> v]
ProviderResponse(fetch_ok, has_parameter, entries) ==
    [fetch_ok |-> fetch_ok, has_parameter |-> has_parameter, entries |-> entries]

\* daily_irradiance = float(value) if value is not None else 0.0
\* irradiance_w_per_m2 = daily_irradiance * 1000 / 24.0, in 1/24 W/m2
Irradiance(entry) == IF entry.kind = "null" THEN 0 ELSE entry.v * 1000

\* parse_nasa_response on the items of the parameter: keys of another length
\* than 8 are skipped; the first item that cannot be converted raises.
RECURSIVE ParseEntries(_)
ParseEntries(entries) ==
    IF entries = <<>> THEN [readings |-> <<>>, raised |-> FALSE]
    ELSE LET e == Head(entries)
             rest == ParseEntries(Tail(entries))
         IN  IF e.key = "short" THEN rest
             ELSE IF e.key = "junk8" \/ e.kind = "text"
                  THEN [readings |-> <<>>, raised |-> TRUE]
                  ELSE IF rest.raised THEN rest
                       ELSE [readings |-> <<[irradiance |-> Irradiance(e), date |-> e.day]>>
                                          \o rest.readings,
                             raised |-> FALSE]

parse_nasa_response(response) ==
    IF response.has_parameter THEN ParseEntries(response.entries)
    ELSE [readings |-> <<>>, raised |-> FALSE]

\* The rows store_satellite_readings adds: one per reading, at noon of its date.
SatelliteRows(gps, nasa_readings) ==
    [k \in DOMAIN nasa_readings |->
        SatelliteReading(gps, [day |-> nasa_readings[k].date, hour |-> 12],
                         nasa_readings[k].irradiance)]

\* ------------------------------------------------------------- verification
\* theoretical_kwh = (irradiance / 1000) * (capacity_kw * 5.0) * 0.20 * 1.0,
\* in 1/24 kWh (irradiance is in 1/24 W/m2; the division is exact, irradiance
\* being a multiple of 1000).
calculate_theoretical_output(irradiance, capacity_kw) ==
    (irradiance * (capacity_kw * AREA_M2_PER_KW)) \div (PANEL_EFFICIENCY_INV * 1000)

\* max_theoretical = theoretical_kwh * 24 * 1.2, in 1/240 kWh
MaxTheoretical(theoretical_kwh) == theoretical_kwh * HOURS_PER_DAY * SAFETY_MARGIN_TENTHS

\* A fraud check that also takes a total equal to the maximum for fraud.
ReachesMaximum(total_kwh, max_theoretical) == total_kwh * 240 >= max_theoretical
\* total_inverter_kwh > max_theoretical (total in kWh, maximum in 1/240 kWh)
ExceedsMaximum(total_kwh, max_theoretical) == total_kwh * 240 > max_theoretical

RECURSIVE Factorial(_)
Factorial(n) == IF n <= 1 THEN 1 ELSE n * Factorial(n - 1)

\* len(hourly_inverter[h]) and sum(hourly_inverter[h]) of the readings rs (a set
\* of rows of the bag rds)
BucketLen(rds, rs, h) ==
    LET S == {r \in rs : r.timestamp.hour = h}
    IN  BagCardinality([r \in S |-> rds[r]])
BucketSum(rds, rs, h) == BagSum(rds, {r \in rs : r.timestamp.hour = h})

\* inverter_hourly: the average of each hour's bucket, 0 for an hour without
\* readings; every entry is multiplied by scale, a multiple of every bucket's
\* length, so that the averages are integers (the coefficient does not change
\* when a series is multiplied by a positive number).
InverterHourly(rds, rs, scale) ==
    [k \in 1..HOURS_PER_DAY |->
        LET n == BucketLen(rds, rs, k - 1)
        IN  IF n = 0 THEN 0 ELSE (scale * BucketSum(rds, rs, k - 1)) \div n]

\* satellite_hourly = [theoretical_kwh] * 24
SatelliteHourly(theoretical_kwh) == [k \in 1..HOURS_PER_DAY |-> theoretical_kwh]

\* calculate_correlation: |sum (x-mx)(y-my)| / sqrt(sum (x-mx)^2 * sum (y-my)^2),
\* 0.0 for series of different lengths, empty series, or a denominator of 0.
\* The deviations are multiplied by the length n (n*x - sum x), which cancels.
calculate_correlation(inverter_values, satellite_values) ==
    IF Len(inverter_values) # Len(satellite_values) \/ Len(inverter_values) = 0
    THEN ZeroCorrelation
    ELSE LET n == Len(inverter_values)
             sum_inv == SumSeq(inverter_values)
             sum_sat == SumSeq(satellite_values)
             dev_inv == [k \in 1..n |-> n * inverter_values[k] - sum_inv]
             dev_sat == [k \in 1..n |-> n * satellite_values[k] - sum_sat]
             numerator == SumSeq([k \in 1..n |-> dev_inv[k] * dev_sat[k]])
             sum_sq_inv == SumSeq([k \in 1..n |-> dev_inv[k] * dev_inv[k]])
             sum_sq_sat == SumSeq([k \in 1..n |-> dev_sat[k] * dev_sat[k]])
         IN  IF sum_sq_inv * sum_sq_sat = 0 THEN ZeroCorrelation
             ELSE Coefficient(numerator * numerator, sum_sq_inv * sum_sq_sat)

\* -------------------------------------------------- floating-point arithmetic
\* The floats of Python are binary floating-point numbers whose operations
\* round the exact result to the nearest number of the format, ties to the even
\* significand.  A float of the model is <<m, e>>, the number m * 2^e with
\* 2^(SignificandBits-1) <= |m| < 2^SignificandBits, or <<0, 0>>; the range of
\* the exponent is not bounded.
Abs(x) == IF x < 0 THEN -x ELSE x
Sign(x) == IF x < 0 THEN -1 ELSE 1
RECURSIVE BitLength(_)
BitLength(n) == IF n = 0 THEN 0 ELSE 1 + BitLength(n \div 2)
FlZero == <<0, 0>>
\* The float nearest to n * 2^e.
FlRound(n, e) ==
    IF n = 0 THEN FlZero
    ELSE LET a == Abs(n)
             drop == BitLength(a) - SignificandBits
         IN  IF drop <= 0 THEN <<Sign(n) * a * 2^(-drop), e + drop>>
             ELSE LET q == a \div 2^drop
                      rest == a % 2^drop
                      half == 2^(drop - 1)
                      m == IF rest > half \/ (rest = half /\ q % 2 = 1) THEN q + 1 ELSE q
                  IN  IF m = 2^SignificandBits
                      THEN <<Sign(n) * 2^(SignificandBits - 1), e + drop + 1>>
                      ELSE <<Sign(n) * m, e + drop>>
\* float(n) of an integer n
FlOfInt(n) == FlRound(n, 0)
\* a + b: a term below a quarter of the last place of the other does not count.
FlAdd(a, b) ==
    IF a[1] = 0 THEN b
    ELSE IF b[1] = 0 THEN a
    ELSE LET hi == IF a[2] >= b[2] THEN a ELSE b
             lo == IF a[2] >= b[2] THEN b ELSE a
             d == hi[2] - lo[2]
         IN  IF d > SignificandBits + 1 THEN hi
             ELSE FlRound(hi[1] * 2^d + lo[1], lo[2])
FlNeg(a) == <<-a[1], a[2]>>
FlSub(a, b) == FlAdd(a, FlNeg(b))
FlMul(a, b) == FlRound(a[1] * b[1], a[2] + b[2])
\* a / b for b # 0: the quotient to SignificandBits + 3 bits, the last of them
\* set when the division leaves a remainder, then rounded.
FlDiv(a, b) ==
    IF a[1] = 0 THEN FlZero
    ELSE LET scaled == Abs(a[1]) * 2^(SignificandBits + 2)
             q == scaled \div Abs(b[1])
             sticky == IF scaled % Abs(b[1]) = 0 THEN 0 ELSE 1
         IN  FlRound(Sign(a[1]) * Sign(b[1]) * (2 * q + sticky),
                     a[2] - b[2] - SignificandBits - 3)
\* math.sqrt(a) for a >= 0: the integer root of the significand scaled, the
\* last bit set when the root is not exact, then rounded.
FlSqrt(a) ==
    IF a[1] = 0 THEN FlZero
    ELSE LET odd == a[2] % 2 = 1
             m2 == IF odd THEN 2 * a[1] ELSE a[1]
             e2 == IF odd THEN a[2] - 1 ELSE a[2]
             big == m2 * 2^(2 * SignificandBits)
             root == CHOOSE r \in 0..2^(2 * SignificandBits) :
                         r * r <= big /\ big < (r + 1) * (r + 1)
             sticky == IF root * root = big THEN 0 ELSE 1
         IN  FlRound(2 * root + sticky, (e2 \div 2) - SignificandBits - 1)
FlAbs(a) == <<Abs(a[1]), a[2]>>
\* a <= b (a difference rounds to a number of its sign)
FlLeq(a, b) == FlSub(a, b)[1] <= 0
RECURSIVE FlSumFrom(_, _)
FlSumFrom(acc, s) == IF s = <<>> THEN acc ELSE FlSumFrom(FlAdd(acc, Head(s)), Tail(s))
\* sum(s): the items added one after the other to 0
FlSum(s) == FlSumFrom(FlZero, s)
RECURSIVE Floats(_)
\* The list of the floats of a list of integers.
Floats(s) == IF s = <<>> THEN <<>> ELSE <<FlOfInt(Head(s))>> \o Floats(Tail(s))
RECURSIVE FlProducts(_, _, _, _)
\* [(x - mean_x) * (y - mean_y) for x, y in zip(xs, ys)]
FlProducts(xs, mean_x, ys, mean_y) ==
    IF xs = <<>> THEN <<>>
    ELSE <<FlMul(FlSub(Head(xs), mean_x), FlSub(Head(ys), mean_y))>>
         \o FlProducts(Tail(xs), mean_x, Tail(ys), mean_y)

\* calculate_correlation as the floats compute it, statement by statement.
calculate_correlation_float(inverter_values, satellite_values) ==
    IF Len(inverter_values) # Len(satellite_values) \/ Len(inverter_values) = 0
    THEN FlZero
    ELSE LET mean_inv == FlDiv(FlSum(inverter_values), FlOfInt(Len(inverter_values)))
             mean_sat == FlDiv(FlSum(satellite_values), FlOfInt(Len(satellite_values)))
             numerator ==
                 FlSum(FlProducts(inverter_values, mean_inv, satellite_values, mean_sat))
             sum_sq_inv ==
                 FlSum(FlProducts(inverter_values, mean_inv, inverter_values, mean_inv))
             sum_sq_sat ==
                 FlSum(FlProducts(satellite_values, mean_sat, satellite_values, mean_sat))
             denominator == FlSqrt(FlMul(sum_sq_inv, sum_sq_sat))
         IN  IF denominator = FlZero THEN FlZero
             ELSE FlAbs(FlDiv(numerator, denominator))

\* correlation >= MIN_CORRELATION_THRESHOLD (0.90), on the squares
MeetsThreshold(correlation) ==
    correlation.n * 100 * 100
        >= MIN_CORRELATION_THRESHOLD_PCT * MIN_CORRELATION_THRESHOLD_PCT * correlation.d

\* f"{x:.2f}" of a quantity x given in 1/unit: the number of hundredths.
Format2f(x, unit) == (x * 200 + unit) \div (2 * unit)

\* A fraud branch that leaves the credit for review instead of flagging it.
FraudStatusPending == "PENDING"
\* The status verify_credit sets in its fraud branch.
FraudStatus == "FLAGGED"

\* The audit rows verify_credit adds in a branch that ends PENDING before the
\* fraud check (no readings, provider failure, no satellite data): none.
EarlyPendingAudit(inverter_id, credit_date, credit_id, reason) == <<>>

RECURSIVE IrradianceSum(_, _)
IrradianceSum(b, S) ==
    IF S = {} THEN 0
    ELSE LET r == CHOOSE x \in S : TRUE
         IN  r.irradiance * b[r] + IrradianceSum(b, S \ {r})
\* A verify that reads the day's irradiance back from the satellite table, adding
\* up the rows stored for the place and the date.
SatelliteIrradianceFromTable(sat, nasa_readings) ==
    IrradianceSum(sat, {r \in BagToSet(sat) : r.timestamp.day = nasa_readings[1].date})
\* satellite_data = nasa_readings[0]; satellite_irradiance = satellite_data["irradiance"]:
\* the first reading of the response, whatever the satellite table sat holds.
SatelliteIrradiance(sat, nasa_readings) == nasa_readings[1].irradiance

\* An early branch that also forgets the correlation of the previous run.
PendingCreditUnverified(credit, reason) ==
    [credit EXCEPT !.status = "PENDING", !.correlation = NoCorrelation,
                   !.flagged_reason = reason]
\* credit.status = CreditStatus.PENDING; credit.flagged_reason = "..." of the
\* branches that return before the fraud check
PendingCredit(credit, reason) ==
    [credit EXCEPT !.status = "PENDING", !.flagged_reason = reason]

\* A verify that leaves the reason of the credit as it is when it verifies.
KeptReason(reason) == reason
\* credit.flagged_reason = None of the branch that ends VERIFIED
ClearedReason(reason) == NoReason

\* A verify that goes on to the provider whether the day has readings or not.
ReadingsNotLookedAt(rs) == FALSE
\* if not inverter_readings
NoInverterReadings(rs) == rs = {}

\* inverter_hourly and satellite_hourly of the readings rs of the day, and their
\* correlation, in exact arithmetic.
ExactCorrelation(rds, rs, theoretical_kwh) ==
    calculate_correlation(
        InverterHourly(rds, rs, Factorial(BagCardinality([r \in rs |-> rds[r]]))),
        SatelliteHourly(theoretical_kwh))

RECURSIVE BucketFloats(_, _)
\* hourly_inverter[h]: the kwh of the readings S of one hour, as floats
BucketFloats(rds, S) ==
    IF S = {} THEN <<>>
    ELSE LET r == CHOOSE x \in S : TRUE
         IN  Repeat(FlOfInt(r.kwh), rds[r]) \o BucketFloats(rds, S \ {r})
\* inverter_hourly as the floats compute it: sum(bucket) / max(len(bucket), 1)
\* with the bucket [0] for an hour without readings.
InverterHourlyFloat(rds, rs) ==
    [k \in 1..HOURS_PER_DAY |->
        LET S == {r \in rs : r.timestamp.hour = k - 1}
        IN  IF S = {} THEN FlZero
            ELSE FlDiv(FlSum(BucketFloats(rds, S)), FlOfInt(BucketLen(rds, rs, k - 1)))]
\* satellite_hourly = [theoretical_kwh] * 24, theoretical_kwh (held in 1/24 kWh)
\* being a float of kWh
SatelliteHourlyFloat(theoretical_kwh) ==
    [k \in 1..HOURS_PER_DAY |-> FlDiv(FlOfInt(theoretical_kwh), FlOfInt(HOURS_PER_DAY))]
\* The correlation a credit holds when it is a float <<m, e>>.
FloatValue(x) == [float |-> x]
\* The correlation of the two profiles as the floats compute it.
FloatCorrelation(rds, rs, theoretical_kwh) ==
    FloatValue(calculate_correlation_float(InverterHourlyFloat(rds, rs),
                                           SatelliteHourlyFloat(theoretical_kwh)))
\* correlation >= MIN_CORRELATION_THRESHOLD for a float correlation
MeetsThresholdFloat(correlation) ==
    LET m == correlation.float[1]
        e == correlation.float[2]
    IN  IF e >= 0 THEN m * 2^e * 100 >= MIN_CORRELATION_THRESHOLD_PCT
        ELSE m * 100 >= MIN_CORRELATION_THRESHOLD_PCT * 2^(-e)

\* theoretical_kwh of a run: calculate_theoretical_output on the irradiance of
\* the first reading of the response and the capacity of the inverter.
TheoreticalKwh(invs, sat, inverter_id, response) ==
    LET nasa_readings == parse_nasa_response(response).readings
        inverter == invs[inverter_id]
        stored == sat (+) SeqToBag(SatelliteRows(inverter.gps, nasa_readings))
    IN  calculate_theoretical_output(SatelliteIrradiance(stored, nasa_readings),
                                     inverter.capacity_kw)
\* The correlation of a run and whether it is at or above the threshold.
Decision(correlation, verified) == [correlation |-> correlation, verified |-> verified]
ExactDecisionOf(correlation) == Decision(correlation, MeetsThreshold(correlation))
FloatDecisionOf(correlation) == Decision(correlation, MeetsThresholdFloat(correlation))
ExactDecision(invs, rds, sat, inverter_id, credit_date, response) ==
    ExactDecisionOf(ExactCorrelation(rds, DayReadings(rds, inverter_id, credit_date),
                                     TheoreticalKwh(invs, sat, inverter_id, response)))
FloatDecision(invs, rds, sat, inverter_id, credit_date, response) ==
    FloatDecisionOf(FloatCorrelation(rds, DayReadings(rds, inverter_id, credit_date),
                                     TheoreticalKwh(invs, sat, inverter_id, response)))

\* verify_credit(session, inverter_id, credit_date) on the tables; response is
\* what the provider gives, store_ok whether the commit of
\* store_satellite_readings succeeds.  The result holds the tables afterwards
\* and raised: "no" when verify_credit returns the credit, else the exception.
\* decision is the outcome of the correlation step (lines 241-261), computed
\* by the caller in its arithmetic and looked at only when the run gets there;
\* zero is the 0.0 of the fraud branch in that arithmetic.
VerifyCreditIn(decision, zero, invs, cs, rds, sat, aud, inverter_id, credit_date, response, store_ok) ==
    LET k == FirstCredit(cs, inverter_id, credit_date)
        rs == DayReadings(rds, inverter_id, credit_date)
        parsed == parse_nasa_response(response)
        nasa_readings == parsed.readings
        inverter == invs[inverter_id]
        stored == sat (+) SeqToBag(SatelliteRows(inverter.gps, nasa_readings))
        Result(sat2, cs2, aud2, e) ==
            [satellite |-> sat2, credits |-> cs2, audit |-> aud2, raised |-> e]
        Raise(e) == Result(sat, cs, aud, e)
        Pending(reason, sat2) ==
            Result(sat2,
                   [cs EXCEPT ![k] = PendingCredit(cs[k], reason)],
                   aud \o EarlyPendingAudit(inverter_id, credit_date, k, reason),
                   "no")
        theoretical_kwh == TheoreticalKwh(invs, sat, inverter_id, response)
        total_inverter_kwh == BagSum(rds, rs)
        max_theoretical == MaxTheoretical(theoretical_kwh)
        fraud_reason == [kind |-> "exceeds",
                         output |-> Format2f(total_inverter_kwh, 1),
                         maximum |-> Format2f(max_theoretical, 240)]
        correlation == decision.correlation
        low_reason == [kind |-> "below_threshold", correlation |-> correlation,
                       threshold |-> MIN_CORRELATION_THRESHOLD_PCT]
    IN  IF ~InverterExists(invs, inverter_id) THEN Raise("ValueError")
        ELSE IF k = 0 THEN Raise("ValueError")
        ELSE IF NoInverterReadings(rs)
        THEN Pending([kind |-> "no_readings"], sat)
        ELSE IF ~response.fetch_ok
        THEN Pending([kind |-> "fetch_failed", error |-> "fetch"], sat)
        ELSE IF parsed.raised
        THEN Pending([kind |-> "fetch_failed", error |-> "parse"], sat)
        ELSE IF nasa_readings # <<>> /\ ~store_ok
        THEN \* The commit of store_satellite_readings failed in its flush and the
             \* session was not rolled back: the commit of the except branch
             \* raises PendingRollbackError and nothing is written.
             Raise("PendingRollbackError")
        ELSE IF nasa_readings = <<>>
        THEN Pending([kind |-> "no_satellite"], stored)
        ELSE IF ExceedsMaximum(total_inverter_kwh, max_theoretical)
        THEN Result(stored,
                    [cs EXCEPT ![k].status = FraudStatus,
                               ![k].correlation = zero,
                               ![k].flagged_reason = fraud_reason],
                    Append(aud,
                        AuditLog(hash_payload(<< <<"inverter_id", inverter_id>>,
                                                 <<"date", credit_date>>,
                                                 <<"reason", fraud_reason>> >>),
                                 "credit_flagged", "carbon_credit", k)),
                    "no")
        ELSE LET status == IF decision.verified THEN "VERIFIED" ELSE "PENDING"
             IN  Result(stored,
                        [cs EXCEPT ![k].status = status,
                                   ![k].correlation = correlation,
                                   ![k].flagged_reason =
                                       IF status = "VERIFIED"
                                       THEN ClearedReason(cs[k].flagged_reason)
                                       ELSE low_reason],
                        Append(aud,
                            AuditLog(hash_payload(<< <<"inverter_id", inverter_id>>,
                                                     <<"date", credit_date>>,
                                                     <<"status", status>>,
                                                     <<"correlation", correlation>> >>),
                                     IF status = "VERIFIED" THEN "credit_verified"
                                     ELSE "credit_pending",
                                     "carbon_credit", k)),
                        "no")

\* verify_credit with the correlation step in exact arithmetic.
VerifyCredit(invs, cs, rds, sat, aud, inverter_id, credit_date, response, store_ok) ==
    VerifyCreditIn(ExactDecision(invs, rds, sat, inverter_id, credit_date, response),
                   ZeroCorrelation,
                   invs, cs, rds, sat, aud, inverter_id, credit_date, response, store_ok)
\* verify_credit with the correlation step in floating point.
VerifyCreditFloat(invs, cs, rds, sat, aud, inverter_id, credit_date, response, store_ok) ==
    VerifyCreditIn(FloatDecision(invs, rds, sat, inverter_id, credit_date, response),
                   FloatValue(FlZero),
                   invs, cs, rds, sat, aud, inverter_id, credit_date, response, store_ok)

\* ------------------------------------------------------------------ inputs
IrradianceValues == {-999, 1}

ProviderEntries(day) ==
    {ProviderEntry("date8", day, "number", v) : v \in IrradianceValues}
    \cup {ProviderEntry("date8", day, "null", 0), ProviderEntry("date8", day, "text", 0),
          ProviderEntry("junk8", day, "number", 1), ProviderEntry("short", day, "number", 1)}

ProviderResponses(day) ==
    {ProviderResponse(FALSE, FALSE, <<>>), ProviderResponse(TRUE, FALSE, <<>>),
     ProviderResponse(TRUE, TRUE, <<>>)}
    \cup {ProviderResponse(TRUE, TRUE, <<e>>) : e \in ProviderEntries(day)}

\* The lines of an uploaded CSV file: a timestamp string and a kwh cell.
CsvLine(valid, day, hour, numeric, value) ==
    [timestamp |-> TimestampString(valid, day, hour), kwh |-> KwhField(numeric, value)]
CsvLines ==
    {CsvLine(TRUE, 1, 11, TRUE, 2), CsvLine(TRUE, 1, 12, TRUE, 5),
     CsvLine(TRUE, 1, 13, TRUE, 2), CsvLine(TRUE, 2, 12, TRUE, 5),
     CsvLine(FALSE, 0, 0, TRUE, 2), CsvLine(TRUE, 1, 12, FALSE, 0)}

SeqsUpTo(S, n) == UNION {[1..m -> S] : m \in 0..n}

\* ------------------------------------------------------------------- state
CreditAudits(aud) == SelectSeq(aud, LAMBDA a : a.entity_type = "carbon_credit")
ReadingAudits(aud) == SelectSeq(aud, LAMBDA a : a.action = "reading_ingested")

Init ==
    /\ inverters = <<>>
    /\ readings = EmptyBag
    /\ satellite = EmptyBag
    /\ credits = <<>>
    /\ audit = <<>>
    /\ pc = "idle"
    /\ rows_iter = Iterator(<<>>)
    /\ batch_size = DEFAULT_BATCH_SIZE
    /\ batch = <<>>
    /\ todo = <<>>
    /\ session_new = EmptySession
    /\ created = <<>>
    /\ commits = 0
    /\ call = NoCall
    /\ result = NotReturned
    /\ tasks = NoTasks
    /\ unaudited = <<>>

\* ----------------------------------------------------------------- requests
\* POST /inverters/ : create_inverter
create_inverter(gps, capacity_kw) ==
    /\ Len(inverters) + 1 \in KnownIds
    /\ inverters' = Append(inverters, Inverter(gps, capacity_kw))
    /\ audit' = Append(audit,
                       AuditLog(hash_payload(<< <<"gps_lat", gps[1]>>, <<"gps_lon", gps[2]>>,
                                                <<"capacity_kw", capacity_kw>> >>),
                                "inverter_created", "inverter", Len(inverters) + 1))
    /\ UNCHANGED <<readings, satellite, credits, streamvars, purevars, stepvars>>

\* The rows rows_generator yields for the lines of a file: float(kwh) of a cell
\* that is no number raises inside the generator.
RECURSIVE rows_generator(_, _)
rows_generator(inverter_id, lines) ==
    IF lines = <<>> THEN <<>>
    ELSE <<Row(inverter_id, Head(lines).timestamp, Head(lines).kwh, ~Head(lines).kwh.numeric)>>
         \o rows_generator(inverter_id, Tail(lines))

\* An upload whose commit writes the log anew from the entries of its session.
ingest_inverter_readings_rewriting(inverter_id, lines) ==
    LET r == SessionClose(RunStream(StreamStart(inverters, readings, audit,
                                                rows_generator(inverter_id, lines),
                                                DEFAULT_BATCH_SIZE)))
    IN  /\ pc = "idle"
        /\ BagCardinality(readings) + Len(lines) <= MaxReadings
        /\ readings' = r.readings
        /\ audit' = SubSeq(r.audit, Len(audit) + 1, Len(r.audit))
        /\ UNCHANGED <<inverters, satellite, credits, streamvars, purevars, stepvars>>

\* An upload that replaces the readings of the table by the readings of the file.
ingest_inverter_readings_replacing(inverter_id, lines) ==
    LET r == SessionClose(RunStream(StreamStart(inverters, readings, audit,
                                                rows_generator(inverter_id, lines),
                                                DEFAULT_BATCH_SIZE)))
    IN  /\ pc = "idle"
        /\ BagCardinality(readings) + Len(lines) <= MaxReadings
        /\ readings' = r.readings (-) readings
        /\ audit' = r.audit
        /\ UNCHANGED <<inverters, satellite, credits, streamvars, purevars, stepvars>>

\* POST /inverters/{inverter_id}/readings : ingest_inverter_readings, which runs
\* ingest_readings_stream with the default batch size; the session is closed
\* when the request ends.
ingest_inverter_readings(inverter_id, lines) ==
    LET r == SessionClose(RunStream(StreamStart(inverters, readings, audit,
                                                rows_generator(inverter_id, lines),
                                                DEFAULT_BATCH_SIZE)))
    IN  /\ pc = "idle"
        /\ BagCardinality(readings) + Len(lines) <= MaxReadings
        /\ readings' = r.readings
        /\ audit' = r.audit
        /\ UNCHANGED <<inverters, satellite, credits, streamvars, purevars, stepvars>>

\* ------------------------------------------ ingest_readings_stream, step by step
\* The rows of a call: row k is of the k-th kind and, when it is stored, is the
\* reading of hour k of day 1 (so that rows are told apart).
RowKinds == {"ok", "unknown_inverter", "bad_timestamp", "bad_kwh", "source_error"}
StreamRow(kind, k) ==
    Row(IF kind = "unknown_inverter" THEN UnknownId ELSE 1,
        TimestampString(kind # "bad_timestamp", 1, k),
        KwhField(kind # "bad_kwh", 2),
        kind = "source_error")
RECURSIVE StreamRowsTo(_, _)
StreamRowsTo(kinds, n) ==
    IF n = 0 THEN <<>> ELSE Append(StreamRowsTo(kinds, n - 1), StreamRow(kinds[n], n))
StreamRows(kinds) == StreamRowsTo(kinds, Len(kinds))

StreamState ==
    [inverters |-> inverters, readings |-> readings, audit |-> audit,
     pc |-> pc, rows_iter |-> rows_iter, batch_size |-> batch_size, batch |-> batch,
     todo |-> todo, session_new |-> session_new, created |-> created,
     commits |-> commits]

StreamApply(s) ==
    /\ pc' = s.pc
    /\ rows_iter' = s.rows_iter
    /\ batch_size' = s.batch_size
    /\ batch' = s.batch
    /\ todo' = s.todo
    /\ session_new' = s.session_new
    /\ created' = s.created
    /\ commits' = s.commits
    /\ readings' = s.readings
    /\ audit' = s.audit
    /\ UNCHANGED <<inverters, satellite, credits, purevars, stepvars>>

\* A caller starts ingest_readings_stream(session, rows_iter, batch_size).
StreamBegin(rows, bsize) ==
    /\ pc = "idle"
    /\ readings = EmptyBag
    /\ StreamApply(StreamStart(inverters, readings, audit, rows, bsize))

\* for row in rows_iter: batch.append(row) ... ; if batch: ...
StreamIterate == pc = "iterate" /\ StreamApply(StreamStep(StreamState))

\* One row of _process_batch, or its commit after the last row.
StreamProcess ==
    pc \in {"process", "process_rest"} /\ StreamApply(StreamStep(StreamState))

\* The call has returned or raised; the request ends and get_session closes
\* the session.
StreamEnd ==
    /\ pc \in {"done", "raised"}
    /\ StreamApply([SessionClose(StreamState) EXCEPT
                        !.pc = IF pc = "done" THEN "returned" ELSE "failed"])

\* POST /credits/calculate : calculate_daily_credit
calculate_daily_credit(inverter_id, credit_date) ==
    /\ credits' = CalculateCredits(credits, readings, inverter_id, credit_date)
    /\ UNCHANGED <<inverters, readings, satellite, audit, streamvars, purevars, stepvars>>

\* POST /credits/{inverter_id}/{credit_date}/verify : verify_credit
verify_credit(inverter_id, credit_date, response, store_ok) ==
    LET r == VerifyCredit(inverters, credits, readings, satellite, audit,
                          inverter_id, credit_date, response, store_ok)
    IN  /\ BagCardinality(r.satellite) <= MaxSatellite
        /\ Len(CreditAudits(r.audit)) <= MaxCreditAudits
        /\ credits' = r.credits
        /\ satellite' = r.satellite
        /\ audit' = r.audit
        /\ UNCHANGED <<inverters, readings, streamvars, purevars, stepvars>>

\* PATCH /credits/{inverter_id}/{credit_date}/status : update_credit_status_endpoint
update_credit_status_endpoint(inverter_id, credit_date, new_status) ==
    LET k == FirstCredit(credits, inverter_id, credit_date)
    IN  /\ credits' = IF k = 0 THEN credits ELSE [credits EXCEPT ![k].status = new_status]
        /\ UNCHANGED <<inverters, readings, satellite, audit, streamvars, purevars, stepvars>>

CreateInverter == \E g \in GpsValues, c \in CapacityValues : create_inverter(g, c)
Ingest == \E i \in InverterIds, lines \in SeqsUpTo(CsvLines, MaxUploadLines) :
              ingest_inverter_readings(i, lines)
Calculate == \E i \in KnownIds, d \in CreditDates : calculate_daily_credit(i, d)
Verify == \E i \in KnownIds, d \in CreditDates :
              \E resp \in ProviderResponses(d), ok \in BOOLEAN :
                  /\ ok \/ parse_nasa_response(resp).readings # <<>>
                  /\ verify_credit(i, d, resp, ok)
UpdateStatus == \E i \in KnownIds, d \in CreditDates, st \in Statuses :
                    update_credit_status_endpoint(i, d, st)

Next == CreateInverter \/ Ingest \/ Calculate \/ Verify \/ UpdateStatus

\* The requests of the API, each served as a whole.
Spec == Init /\ [][Next]_vars

StreamCall == \E kinds \in SeqsUpTo(RowKinds, MaxStreamRows), b \in 1..MaxBatchSize :
                  StreamBegin(StreamRows(kinds), b)

NextStream == CreateInverter \/ StreamCall \/ StreamIterate \/ StreamProcess \/ StreamEnd

\* One call of ingest_readings_stream, statement by statement, with inverters
\* created at any time.
SpecStream == Init /\ [][NextStream]_vars

\* The same call run by the event loop: a coroutine that can take its next step
\* (the next row, the next statement of _process_batch, the end of the request)
\* takes it; nothing obliges a caller to start a call or to create an inverter.
SpecStreamFair ==
    /\ Init /\ [][NextStream]_vars
    /\ WF_vars(StreamIterate) /\ WF_vars(StreamProcess) /\ WF_vars(StreamEnd)

\* POST /credits/ : create_credit_endpoint, which adds the credit of the body
\* without looking for a credit of the same inverter and date.
create_credit_endpoint(credit) ==
    /\ Len(credits) < MaxCredits
    /\ credits' = Append(credits, credit)
    /\ UNCHANGED <<inverters, readings, satellite, audit, streamvars, purevars, stepvars>>

\* The bodies of the request: CarbonCreditCreate.
CreditBodies ==
    {CarbonCredit(i, d, t, "PENDING") : i \in KnownIds, d \in CreditDates, t \in {0, 24, 60}}
    \cup {[CarbonCredit(i, d, 24, "VERIFIED") EXCEPT !.correlation = Coefficient(1, 1)] :
              i \in KnownIds, d \in CreditDates}
CreateCredit == \E c \in CreditBodies : create_credit_endpoint(c)

NextCredits == CreateInverter \/ Calculate \/ Verify \/ UpdateStatus \/ CreateCredit

\* The requests that write credits, direct creation included, each served as a
\* whole (no readings are uploaded).
SpecCredits == Init /\ [][NextCredits]_vars

\* The lines of an uploaded file whose kwh cells float() accepts: numbers of
\* either sign.
SignedCsvLines ==
    {CsvLine(TRUE, 1, 11, TRUE, -5), CsvLine(TRUE, 1, 12, TRUE, 2),
     CsvLine(TRUE, 1, 13, TRUE, 5), CsvLine(TRUE, 2, 12, TRUE, -2)}
IngestSigned == \E i \in KnownIds, lines \in SeqsUpTo(SignedCsvLines, MaxUploadLines) :
                    ingest_inverter_readings(i, lines)

NextSigned == CreateInverter \/ IngestSigned \/ Calculate

\* Uploads of readings and calculations, each served as a whole, the files
\* holding kwh cells of either sign.
SpecSigned == Init /\ [][NextSigned]_vars

\* A request of calculate_daily_credit starts on a free task and runs to its
\* first await: the sum of the day is read.
CalculateBegin(t, inverter_id, credit_date) ==
    /\ tasks[t].pc \in {"idle", "returned"}
    /\ tasks' = [tasks EXCEPT ![t] = CalculateSum(tasks[t], readings, inverter_id, credit_date)]
    /\ UNCHANGED <<dbvars, streamvars, purevars, unaudited>>
\* The request looks for the credit of its inverter and date.
CalculateFind(t) ==
    /\ tasks[t].pc = "summed"
    /\ tasks' = [tasks EXCEPT ![t] = CalculateLookup(tasks[t], credits)]
    /\ UNCHANGED <<dbvars, streamvars, purevars, unaudited>>
\* The request commits its credit and returns.
CalculateEnd(t) ==
    /\ tasks[t].pc = "found"
    /\ credits' = CalculateCommit(credits, tasks[t])
    /\ tasks' = [tasks EXCEPT ![t].pc = "returned"]
    /\ UNCHANGED <<inverters, readings, satellite, audit, streamvars, purevars, unaudited>>

\* An upload of one line: 5 kWh at noon of day 1.
IngestNoon == \E i \in KnownIds :
                  ingest_inverter_readings(i, <<CsvLine(TRUE, 1, 12, TRUE, 5)>>)
CalculateStart == \E t \in 1..MaxTasks, i \in KnownIds, d \in CreditDates :
                      CalculateBegin(t, i, d)
CalculateStep == \E t \in 1..MaxTasks : CalculateFind(t) \/ CalculateEnd(t)
\* A verification for which the provider gives 1 kWh/m2 for the day.
VerifyClearDay ==
    \E i \in KnownIds, d \in CreditDates :
        verify_credit(i, d, ProviderResponse(TRUE, TRUE, <<ProviderEntry("date8", d, "number", 1)>>),
                      TRUE)

NextRace == CreateInverter \/ IngestNoon \/ CalculateStart \/ CalculateStep \/ VerifyClearDay

\* Requests of calculate_daily_credit served concurrently, interleaved at their
\* awaits with each other and with uploads and verifications (each of these
\* served as a whole).
SpecRace == Init /\ [][NextRace]_vars

\* ------------------------------------- the two commits of a request, one by one
\* create_inverter and verify_credit commit their record, then add the audit
\* entry and commit again.  unaudited holds the entries of the requests that
\* are between their two commits.
RemoveAt(s, n) == SubSeq(s, 1, n - 1) \o SubSeq(s, n + 1, Len(s))

\* A create_inverter that commits its audit entry first and the inverter after.
CreateInverterAuditFirst(gps, capacity_kw) ==
    /\ Len(inverters) + 1 \in KnownIds
    /\ Len(unaudited) < MaxUnaudited
    /\ audit' = Append(audit,
                       AuditLog(hash_payload(<< <<"gps_lat", gps[1]>>, <<"gps_lon", gps[2]>>,
                                                <<"capacity_kw", capacity_kw>> >>),
                                "inverter_created", "inverter", Len(inverters) + 1))
    /\ UNCHANGED <<inverters, readings, satellite, credits, streamvars, purevars, stepvars>>
\* create_inverter to its first commit: session.add(inverter); await
\* session.commit(); await session.refresh(inverter).
CreateInverterCommit(gps, capacity_kw) ==
    /\ Len(inverters) + 1 \in KnownIds
    /\ Len(unaudited) < MaxUnaudited
    /\ inverters' = Append(inverters, Inverter(gps, capacity_kw))
    /\ unaudited' =
           Append(unaudited,
                  AuditLog(hash_payload(<< <<"gps_lat", gps[1]>>, <<"gps_lon", gps[2]>>,
                                           <<"capacity_kw", capacity_kw>> >>),
                           "inverter_created", "inverter", Len(inverters) + 1))
    /\ UNCHANGED <<readings, satellite, credits, audit, streamvars, purevars, tasks>>

\* verify_credit to the commit of the credit (and its return, in the branches
\* that write no audit entry).
VerifyCommit(inverter_id, credit_date, response, store_ok) ==
    LET r == VerifyCredit(inverters, credits, readings, satellite, audit,
                          inverter_id, credit_date, response, store_ok)
    IN  /\ BagCardinality(r.satellite) <= MaxSatellite
        /\ Len(unaudited) + (Len(r.audit) - Len(audit)) <= MaxUnaudited
        /\ credits' = r.credits
        /\ satellite' = r.satellite
        /\ unaudited' = unaudited \o SubSeq(r.audit, Len(audit) + 1, Len(r.audit))
        /\ UNCHANGED <<inverters, readings, audit, streamvars, purevars, tasks>>

\* session.add(audit); await session.commit() of a request whose record is
\* committed.
AuditCommit(n) ==
    /\ n \in 1..Len(unaudited)
    /\ audit' = Append(audit, unaudited[n])
    /\ unaudited' = RemoveAt(unaudited, n)
    /\ UNCHANGED <<inverters, readings, satellite, credits, streamvars, purevars, tasks>>

\* The second commit of a request fails, or the process stops before it: the
\* entry is not written.
AuditFails(n) ==
    /\ n \in 1..Len(unaudited)
    /\ unaudited' = RemoveAt(unaudited, n)
    /\ UNCHANGED <<dbvars, streamvars, purevars, tasks>>

CreateInverterFirst == \E g \in GpsValues, c \in CapacityValues : CreateInverterCommit(g, c)
VerifyFirst == \E i \in KnownIds, d \in CreditDates :
                   \E resp \in ProviderResponses(d), ok \in BOOLEAN :
                       /\ ok \/ parse_nasa_response(resp).readings # <<>>
                       /\ VerifyCommit(i, d, resp, ok)
AuditSecond == \E n \in 1..MaxUnaudited : AuditCommit(n) \/ AuditFails(n)

NextAudit == CreateInverterFirst \/ IngestNoon \/ Calculate \/ VerifyFirst \/ AuditSecond

\* Inverter creation and verify served commit by commit, the second commit of a
\* request failing or not, with uploads and calculations served as a whole.
SpecAudit == Init /\ [][NextAudit]_vars


\* ------------------------------------------- verification in floating point
\* Files that cover a day: one reading of the same energy in each of the 24
\* hours of the day.
DayKwhValues == {1, 2}
Days == {1, 2}
RECURSIVE DayLines(_, _, _)
DayLines(day, value, n) ==
    IF n = 0 THEN <<>>
    ELSE Append(DayLines(day, value, n - 1), CsvLine(TRUE, day, n - 1, TRUE, value))
DayFiles == {DayLines(day, v, HOURS_PER_DAY) : day \in Days, v \in DayKwhValues}
\* The daily values of the provider: an overcast and a clear day (kWh/m2/day).
DayIrradianceValues == {1, 5}

\* POST /inverters/{inverter_id}/readings with a file of DayFiles
ingest_day_file(inverter_id, lines) ==
    LET r == SessionClose(RunStream(StreamStart(inverters, readings, audit,
                                                rows_generator(inverter_id, lines),
                                                DEFAULT_BATCH_SIZE)))
    IN  /\ pc = "idle"
        /\ BagCardinality(readings) + Len(lines) <= MaxDayReadings
        /\ readings' = r.readings
        /\ audit' = r.audit
        /\ UNCHANGED <<inverters, satellite, credits, streamvars, purevars, stepvars>>

\* POST /credits/{inverter_id}/{credit_date}/verify, the correlation in floats
verify_credit_float(inverter_id, credit_date, response, store_ok) ==
    LET r == VerifyCreditFloat(inverters, credits, readings, satellite, audit,
                               inverter_id, credit_date, response, store_ok)
    IN  /\ BagCardinality(r.satellite) <= MaxDaySatellite
        /\ Len(CreditAudits(r.audit)) <= MaxDayAudits
        /\ credits' = r.credits
        /\ satellite' = r.satellite
        /\ audit' = r.audit
        /\ UNCHANGED <<inverters, readings, streamvars, purevars, stepvars>>

IngestDay == \E i \in KnownIds, lines \in DayFiles : ingest_day_file(i, lines)
\* What the provider gives for a day: one of the daily values, or no answer.
DayResponses(d) ==
    {ProviderResponse(TRUE, TRUE, <<ProviderEntry("date8", d, "number", v)>>) :
        v \in DayIrradianceValues}
    \cup {ProviderResponse(FALSE, FALSE, <<>>)}
VerifyFloat ==
    \E i \in KnownIds, d \in CreditDates : \E resp \in DayResponses(d) :
        verify_credit_float(i, d, resp, TRUE)

NextFloat == CreateInverter \/ IngestDay \/ Calculate \/ VerifyFloat

\* Uploads, calculations and verifications, each served as a whole, the
\* correlation of verify computed in floating point.
SpecFloat == Init /\ [][NextFloat]_vars

\* --------------------------------------------- functions called on their own
\* The readings of inverter 1 at noon of day 1 with the given kwh values.
RECURSIVE ReadingsOf(_)
ReadingsOf(kwhs) ==
    IF kwhs = <<>> THEN EmptyBag
    ELSE SetToBag({InverterReading(1, fromisoformat(TimestampString(TRUE, 1, 12)),
                                   Head(kwhs))})
         (+) ReadingsOf(Tail(kwhs))

KwhValues == 0..MaxKwh \cup {1000}
\* The credits table before calculate: empty, or the credit of day 1.
CreditTables ==
    {<<>>, <<CarbonCredit(1, 1, 0, "PENDING")>>, <<CarbonCredit(1, 1, 24, "VERIFIED")>>}

\* Payloads of up to MaxPayloadItems items with the keys of a reading.
PayloadKeys == {"inverter_id", "timestamp", "kwh"}
PayloadValues == {1, 2}
Payloads ==
    {p \in SeqsUpTo(PayloadKeys \X PayloadValues, MaxPayloadItems) :
        \A a, b \in 1..Len(p) : p[a][1] = p[b][1] => a = b}

\* Series of whole numbers of kWh, of up to MaxSeriesLen values.
SeriesValues == {0, 1, 3, 5}
Series == SeqsUpTo(SeriesValues, MaxSeriesLen)

\* Stored readings of either inverter at the first and the last hour of day 1,
\* the last hour of the day before and the first hour of the day after, and
\* one at noon of day 1.
StoredReadings ==
    {InverterReading(i, fromisoformat(TimestampString(TRUE, t[1], t[2])), 2) :
         i \in InverterIds, t \in {<<0, 23>>, <<1, 0>>, <<1, 23>>, <<2, 0>>}}
    \cup {InverterReading(1, fromisoformat(TimestampString(TRUE, 1, 12)), 5)}

PureCalls ==
    {Call("calculate_co2_avoided", <<kwh>>) : kwh \in KwhValues}
    \cup {Call("total_kwh", <<rows, i, d>>) :
              rows \in SeqsUpTo(StoredReadings, MaxReadings), i \in InverterIds,
              d \in CreditDates}
    \cup {Call("calculate_correlation", <<xs, ys>>) : xs \in Series, ys \in Series}
    \cup {Call("hash_payload", <<payload>>) : payload \in Payloads}
    \cup {Call("calculate_daily_credit", <<cs, kwhs>>) :
              cs \in CreditTables, kwhs \in SeqsUpTo({0, 2, 5, 1000}, MaxReadings)}

InitPure ==
    /\ inverters = <<>>
    /\ readings = EmptyBag
    /\ satellite = EmptyBag
    /\ credits = <<>>
    /\ audit = <<>>
    /\ pc = "idle"
    /\ rows_iter = Iterator(<<>>)
    /\ batch_size = DEFAULT_BATCH_SIZE
    /\ batch = <<>>
    /\ todo = <<>>
    /\ session_new = EmptySession
    /\ created = <<>>
    /\ commits = 0
    /\ call \in PureCalls
    /\ result = NotReturned
    /\ tasks = NoTasks
    /\ unaudited = <<>>

\* The called function returns v.
Returns(fn, v) ==
    /\ call[1] = fn
    /\ result = NotReturned
    /\ result' = ReturnedValue(v)
    /\ UNCHANGED <<dbvars, streamvars, call, stepvars>>

CallCo2Avoided == Returns("calculate_co2_avoided", calculate_co2_avoided(call[2][1]))
CallCalculate ==
    Returns("calculate_daily_credit",
            CalculateCredits(call[2][1], ReadingsOf(call[2][2]), 1, 1))

CallHashPayload == Returns("hash_payload", hash_payload(call[2][1]))

CallCorrelation ==
    Returns("calculate_correlation",
            calculate_correlation_float(Floats(call[2][1]), Floats(call[2][2])))

\* The select of the sum of calculate_daily_credit on a table of readings.
CallTotalKwh ==
    Returns("total_kwh", TotalKwh(SeqToBag(call[2][1]), call[2][2], call[2][3]))

NextPure ==
    CallCo2Avoided \/ CallCalculate \/ CallHashPayload \/ CallCorrelation \/ CallTotalKwh

\* One call of one function of the handlers, on arguments from bounded sets.
SpecPure == InitPure /\ [][NextPure]_vars

\* ------------------------------------------------------------------ claims
\* verify_credit and calculate_daily_credit applied to the tables of the state.
VerifyNow(i, d, resp, ok) ==
    VerifyCredit(inverters, credits, readings, satellite, audit, i, d, resp, ok)
CalculateNow(i, d) == CalculateCredits(credits, readings, i, d)

\* verify_credit gets as far as the provider: the inverter exists, it has a
\* credit for the date and readings on the date.
ReachesProvider(i, d) ==
    /\ InverterExists(inverters, i)
    /\ FirstCredit(credits, i, d) # 0
    /\ DayReadings(readings, i, d) # {}

\* The provider returns irradiance: the fetch and the parse succeed and give
\* at least one reading.
ReturnsIrradiance(resp) ==
    /\ resp.fetch_ok
    /\ ~parse_nasa_response(resp).raised
    /\ parse_nasa_response(resp).readings # <<>>

\* The day's total against theoretical_kWh * 24 * 1.2, from the definitions:
\* theoretical_kWh = (irradiance / 1000) * capacity * 5 * 0.2 with irradiance in
\* W/m2, which the model holds in 1/24 W/m2; so the ceiling in kWh is
\* irradiance * capacity * 12 / 10000.
CeilingTimes10000(i, resp) ==
    parse_nasa_response(resp).readings[1].irradiance * inverters[i].capacity_kw * 12
AboveCeiling(i, d, resp) == TotalKwh(readings, i, d) * 10000 > CeilingTimes10000(i, resp)

\* C1: verify on an existing credit whose date has readings, with irradiance
\* returned by the provider and a day's total strictly above
\* theoretical_kWh * 24 * 1.2, ends with the credit FLAGGED, correlation 0 and a
\* reason that cites the reported total and the ceiling (both to two decimals),
\* whatever the status of the credit was.
C1_FraudIsFlagged ==
    \A i \in KnownIds, d \in CreditDates : \A resp \in ProviderResponses(d) :
        (ReachesProvider(i, d) /\ ReturnsIrradiance(resp) /\ AboveCeiling(i, d, resp))
        => LET r == VerifyNow(i, d, resp, TRUE)
               c == r.credits[FirstCredit(credits, i, d)]
           IN  /\ r.raised = "no"
               /\ c.status = "FLAGGED"
               /\ c.correlation = ZeroCorrelation
               /\ c.flagged_reason.kind = "exceeds"
               /\ c.flagged_reason.output = TotalKwh(readings, i, d) * 100
               /\ c.flagged_reason.maximum = CeilingTimes10000(i, resp) \div 100

\* A credit that an earlier verify flagged for fraud and that was then set to
\* VERIFIED is verified again with a total above the ceiling, and is FLAGGED.
C1_Witness ==
    \E i \in KnownIds, d \in CreditDates : \E resp \in ProviderResponses(d) :
        /\ ReachesProvider(i, d) /\ ReturnsIrradiance(resp) /\ AboveCeiling(i, d, resp)
        /\ credits[FirstCredit(credits, i, d)].status = "VERIFIED"
        /\ credits[FirstCredit(credits, i, d)].flagged_reason.kind = "exceeds"
        /\ VerifyNow(i, d, resp, TRUE).credits[FirstCredit(credits, i, d)].status = "FLAGGED"

\* The provider call fails: the fetch raises, the parse raises, or the commit
\* that stores the fetched readings fails.
ProviderFails(resp, store_ok) ==
    \/ ~resp.fetch_ok
    \/ parse_nasa_response(resp).raised
    \/ (parse_nasa_response(resp).readings # <<>> /\ ~store_ok)

\* C2: when the provider call (fetch, parse or storing of the fetched readings)
\* fails during verify, verify returns normally with the credit PENDING and a
\* reason that mentions the failure, for every previous status; it does not
\* raise and the credit is not FLAGGED.
C2_ProviderFailureIsPending ==
    \A i \in KnownIds, d \in CreditDates :
        \A resp \in ProviderResponses(d), store_ok \in BOOLEAN :
            (ReachesProvider(i, d) /\ ProviderFails(resp, store_ok))
            => LET r == VerifyNow(i, d, resp, store_ok)
                   c == r.credits[FirstCredit(credits, i, d)]
               IN  /\ r.raised = "no"
                   /\ c.status = "PENDING"
                   /\ c.flagged_reason.kind = "fetch_failed"

\* The readings of the day are one per hour on three hours in a row, rising to
\* the middle one and falling after it: a bell over the day (the other hours
\* are 0).
BellShaped(i, d) ==
    \E a, b, c \in DayReadings(readings, i, d) :
        /\ DayReadings(readings, i, d) = {a, b, c}
        /\ readings[a] = 1 /\ readings[b] = 1 /\ readings[c] = 1
        /\ a.timestamp.hour + 1 = b.timestamp.hour
        /\ b.timestamp.hour + 1 = c.timestamp.hour
        /\ 0 < a.kwh /\ a.kwh < b.kwh /\ 0 < c.kwh /\ c.kwh < b.kwh

\* C3: for readings that follow a bell-shaped daytime curve with a day's total
\* below the ceiling, verify ends with the credit VERIFIED and its reason
\* cleared.
C3_BellCurveIsVerified ==
    \A i \in KnownIds, d \in CreditDates : \A resp \in ProviderResponses(d) :
        (/\ ReachesProvider(i, d) /\ ReturnsIrradiance(resp)
         /\ BellShaped(i, d) /\ ~AboveCeiling(i, d, resp))
        => LET r == VerifyNow(i, d, resp, TRUE)
               c == r.credits[FirstCredit(credits, i, d)]
           IN  /\ r.raised = "no"
               /\ c.status = "VERIFIED"
               /\ c.flagged_reason = NoReason

\* C4: a calculate or a verify on the (inverter, date) of a credit whose status
\* is SUBMITTED leaves the status SUBMITTED.
C4_SubmittedIsTerminal ==
    \A i \in KnownIds, d \in CreditDates :
        \A resp \in ProviderResponses(d), store_ok \in BOOLEAN :
            LET k == FirstCredit(credits, i, d) IN
            (k # 0 /\ credits[k].status = "SUBMITTED")
            => /\ CalculateNow(i, d)[k].status = "SUBMITTED"
               /\ VerifyNow(i, d, resp, store_ok).credits[k].status = "SUBMITTED"


\* The ids of the credits of an (inverter, date).
CreditsFor(cs, i, d) ==
    {k \in 1..Len(cs) : cs[k].inverter_id = i /\ cs[k].credit_date = d}
AtMostOneCreditEach(cs) ==
    \A k, j \in 1..Len(cs) :
        (cs[k].inverter_id = cs[j].inverter_id /\ cs[k].credit_date = cs[j].credit_date)
        => k = j

\* C5: after any sequence of calculate calls and ingestions there is at most
\* one credit for each (inverter, date), and one more calculate keeps it so: a
\* call for an (inverter, date) without a credit adds one record, a call for an
\* (inverter, date) with a credit adds none and leaves the record in its place.
C5_OneCreditPerInverterDate ==
    /\ AtMostOneCreditEach(credits)
    /\ \A i \in InverterIds, d \in CreditDates :
           LET after == CalculateNow(i, d) IN
           /\ AtMostOneCreditEach(after)
           /\ CreditsFor(credits, i, d) = {} =>
                  (Len(after) = Len(credits) + 1 /\ CreditsFor(after, i, d) = {Len(after)})
           /\ CreditsFor(credits, i, d) # {} =>
                  (Len(after) = Len(credits) /\ CreditsFor(after, i, d) = CreditsFor(credits, i, d))

\* A credit exists whose tonnage is not that of the readings now stored (readings
\* were ingested after it was calculated), and calculating again updates
\* that record.
C5_Witness ==
    \E i \in KnownIds, d \in CreditDates :
        /\ CreditsFor(credits, i, d) # {}
        /\ credits[FirstCredit(credits, i, d)].tonnes > 0
        /\ CalculateNow(i, d) # credits
        /\ Len(CalculateNow(i, d)) = Len(credits)

\* C6: calculate called twice for an (inverter, date) on the same readings
\* gives the same tonnage the second time as the first, and neither call
\* changes the status of a credit that is VERIFIED or FLAGGED.
C6_CalculateTwice ==
    \A i \in InverterIds, d \in CreditDates :
        LET once == CalculateNow(i, d)
            twice == CalculateCredits(once, readings, i, d)
            k == FirstCredit(once, i, d)
        IN  /\ k # 0
            /\ FirstCredit(twice, i, d) = k
            /\ twice[k].tonnes = once[k].tonnes
            /\ (FirstCredit(credits, i, d) # 0 /\ credits[k].status \in {"VERIFIED", "FLAGGED"})
               => (once[k].status = credits[k].status /\ twice[k].status = credits[k].status)

\* A FLAGGED or VERIFIED credit with a tonnage above 0 that a calculate on the
\* readings now stored has produced: calculating again changes nothing.
C6_Witness ==
    \E i \in KnownIds, d \in CreditDates :
        LET k == FirstCredit(credits, i, d) IN
        /\ k # 0
        /\ credits[k].status \in {"VERIFIED", "FLAGGED"}
        /\ credits[k].tonnes > 0
        /\ CalculateNow(i, d) = credits
        /\ CalculateCredits(CalculateNow(i, d), readings, i, d) = credits

\* C7: calculate for an (inverter, date) without a credit adds a credit with
\* status PENDING, no correlation and no reason; for an (inverter, date) with a
\* credit, in any status, it changes nothing but the tonnage of that credit
\* (status, correlation and flagged reason stay, other credits stay), also when
\* the readings are not those of the last calculation.  Timestamps are not
\* modelled.
C7_CalculateFrame ==
    \A i \in InverterIds, d \in CreditDates :
        LET after == CalculateNow(i, d)
            k == FirstCredit(credits, i, d)
            tonnes == TotalKwh(readings, i, d) * 12
        IN  /\ k = 0 =>
                  after = Append(credits, [inverter_id |-> i, credit_date |-> d,
                                           tonnes |-> tonnes, status |-> "PENDING",
                                           correlation |-> NoCorrelation,
                                           flagged_reason |-> NoReason])
            /\ k # 0 =>
                  /\ Len(after) = Len(credits)
                  /\ \A j \in 1..Len(credits) : j # k => after[j] = credits[j]
                  /\ after[k] = [credits[k] EXCEPT !.tonnes = tonnes]

\* A credit flagged by verify (status FLAGGED, correlation 0, a reason) whose
\* tonnage is not that of the readings now stored: calculate changes the tonnage.
C7_Witness ==
    \E i \in KnownIds, d \in CreditDates :
        LET k == FirstCredit(credits, i, d) IN
        /\ k # 0
        /\ credits[k].status = "FLAGGED"
        /\ credits[k].correlation = ZeroCorrelation
        /\ credits[k].flagged_reason.kind = "exceeds"
        /\ credits[k].tonnes # TotalKwh(readings, i, d) * 12
        /\ CalculateNow(i, d)[k].tonnes = TotalKwh(readings, i, d) * 12

\* The audit entry that goes with a status.
ActionOfStatus(status) ==
    CASE status = "FLAGGED" -> "credit_flagged"
      [] status = "VERIFIED" -> "credit_verified"
      [] status = "PENDING" -> "credit_pending"
      [] OTHER -> "none"

\* C8: every verify that ends with a status decision (no readings, provider
\* failure, no satellite data, fraud, correlation at or above the threshold,
\* correlation below it) appends one audit entry for the credit, tagged
\* credit_flagged, credit_verified or credit_pending after the status it set.
C8_VerifyAudits ==
    \A i \in KnownIds, d \in CreditDates : \A resp \in ProviderResponses(d) :
        LET r == VerifyNow(i, d, resp, TRUE)
            k == FirstCredit(credits, i, d)
        IN  (InverterExists(inverters, i) /\ k # 0 /\ r.raised = "no")
            => /\ Len(r.audit) = Len(audit) + 1
               /\ SubSeq(r.audit, 1, Len(audit)) = audit
               /\ r.audit[Len(r.audit)].entity_type = "carbon_credit"
               /\ r.audit[Len(r.audit)].entity_id = k
               /\ r.audit[Len(r.audit)].action = ActionOfStatus(r.credits[k].status)

\* The reading and the audit entry a row of the call gives when it is stored.
RowReading(row) ==
    [inverter_id |-> row.inverter_id,
     timestamp |-> [day |-> row.timestamp.day, hour |-> row.timestamp.hour],
     kwh |-> row.kwh.value]
RowAudit(row) ==
    [payload_hash |-> [sha256 |-> << <<"inverter_id", row.inverter_id>>,
                                    <<"kwh", row.kwh>>, <<"timestamp", row.timestamp>> >>],
     action |-> "reading_ingested", entity_type |-> "inverter_reading", entity_id |-> NoId]
RECURSIVE FirstReadings(_)
\* The readings of the first n rows of the call, as a bag.
FirstReadings(n) ==
    IF n = 0 THEN EmptyBag
    ELSE FirstReadings(n - 1) (+) SetToBag({RowReading(rows_iter.rows[n])})

\* The call has ended: it returned, or it raised.
Returned == pc \in {"done", "returned"}
Raised == pc \in {"raised", "failed"}
\* The place among the rows of the call of the row that failed: the row the
\* source raised on, or the row _process_batch raised on.
FailedRow == IF todo = <<>> THEN rows_iter.given ELSE rows_iter.given - Len(todo) + 1
\* The batch a row belongs to, batches being numbered from 1.
BatchOf(n) == (n + batch_size - 1) \div batch_size

\* C9: a call with N rows that all are valid and batch size B returns after
\* exactly ceil(N/B) commits with the N readings persisted; a call in which a row
\* of batch k fails raises (it does not return) with exactly (k-1)*B readings
\* persisted, those of the rows of batches 1..k-1, after k-1 commits.
C9_BatchCommits ==
    LET N == Len(rows_iter.rows)
        B == batch_size
        k == BatchOf(FailedRow)
    IN  /\ Returned =>
               /\ \A j \in 1..N : ~rows_iter.rows[j].raises
                                   /\ ~RowRaises(inverters, rows_iter.rows[j])
               /\ commits = (N + B - 1) \div B
               /\ readings = FirstReadings(N)
        /\ Raised =>
               /\ FailedRow \in 1..N
               /\ commits = k - 1
               /\ BagCardinality(readings) = (k - 1) * B
               /\ readings = FirstReadings((k - 1) * B)

\* A call with batch size 2 raised on its fourth row, in the second batch, after
\* one commit: two readings are persisted.
C9_Witness ==
    /\ pc = "failed"
    /\ batch_size = 2
    /\ FailedRow = 4
    /\ commits = 1
    /\ BagCardinality(readings) = 2

\* C10: when a batch is aborted (unknown inverter, unparsable timestamp,
\* non-numeric kWh, or an error of the row source), then and at any time after,
\* also after the session of the request is closed, the readings and the
\* reading audit entries in the tables are those of the batches committed
\* before it, each once: no row of the aborted batch is among them, the rows
\* added to the session before the failing row included.
C10_AbortedBatchNotPersisted ==
    Raised =>
        LET n == commits * batch_size IN
        /\ n < FailedRow
        /\ readings = FirstReadings(n)
        /\ ReadingAudits(audit) = [j \in 1..n |-> RowAudit(rows_iter.rows[j])]
        /\ \A j \in (n + 1)..Len(rows_iter.rows) :
               /\ RowReading(rows_iter.rows[j]) \notin BagToSet(readings)
               /\ \A a \in 1..Len(ReadingAudits(audit)) :
                      ReadingAudits(audit)[a] # RowAudit(rows_iter.rows[j])
        /\ pc = "failed" => session_new = EmptySession

\* _process_batch raised on the second row of the second batch, of which the
\* first row had been added to the session; the session has been closed.
C10_Witness ==
    /\ pc = "failed"
    /\ commits = 1
    /\ batch_size = 2
    /\ Len(batch) = 2
    /\ Len(todo) = 1
    /\ BagCardinality(readings) = 2

\* The audit entry _process_batch writes for the row a stored reading came from.
ReadingAuditOf(r) ==
    RowAudit(Row(r.inverter_id, TimestampString(TRUE, r.timestamp.day, r.timestamp.hour),
                 KwhField(TRUE, r.kwh), FALSE))
\* The number of entries of the log that are equal to a.
AuditCount(aud, a) == Len(SelectSeq(aud, LAMBDA x : x = a))

\* C11: in every state of a call of ingest_readings_stream, at every statement
\* and after a batch failed or the call was aborted, the persisted audit entries
\* tagged reading_ingested are as many as the persisted readings: each stored
\* reading has as many entries as it has copies (one each), and every such
\* entry is the entry of a stored reading.
C11_ReadingAuditPerReading ==
    /\ Len(ReadingAudits(audit)) = BagCardinality(readings)
    /\ \A r \in BagToSet(readings) :
           AuditCount(ReadingAudits(audit), ReadingAuditOf(r)) = CopiesIn(r, readings)
    /\ \A a \in 1..Len(ReadingAudits(audit)) :
           \E r \in BagToSet(readings) : ReadingAudits(audit)[a] = ReadingAuditOf(r)

\* A call with batch size 1 stored two readings with their entries, then
\* _process_batch raised on the third row and the session was closed.
C11_Witness ==
    /\ pc = "failed"
    /\ batch_size = 1
    /\ commits = 2
    /\ BagCardinality(readings) = 2
    /\ Len(ReadingAudits(audit)) = 2
    /\ Len(todo) = 1

\* The committed entries of a log, as the audit read surface shows them.
Committed(aud) ==
    [j \in 1..Len(aud) |->
        <<aud[j].payload_hash, aud[j].action, aud[j].entity_type, aud[j].entity_id>>]

\* C12: the audit log is append-only: every request (inverter creation, upload
\* of readings, calculate, verify, status override) leaves each committed
\* entry in its place with the same hash, action, entity type and entity id;
\* the log after the request is the log before it, followed by zero or more
\* new entries.
C12_AuditAppendOnly ==
    [][/\ Len(audit') >= Len(audit)
       /\ SubSeq(Committed(audit'), 1, Len(audit)) = Committed(audit)]_vars

\* The log holds the entry of the inverter, then the entries of two readings,
\* then the entry of a verification of the credit.
C12_Witness ==
    /\ Len(audit) = 4
    /\ audit[1].action = "inverter_created"
    /\ audit[2].action = "reading_ingested"
    /\ audit[3].action = "reading_ingested"
    /\ audit[4].entity_type = "carbon_credit"

\* C13: every request that changes the persisted inverters, readings or credits
\* (inverter creation, upload of readings, creation of a credit or update of
\* its tonnage by calculate, status change by verify, status override) appends
\* at least one entry to the audit log.
C13_EveryChangeIsAudited ==
    [][<<inverters, readings, credits>>' # <<inverters, readings, credits>>
           => Len(audit') > Len(audit)]_vars

\* verify_credit run a second time on what its first run left, with the same
\* readings and the same provider response and outcome of the store.
VerifyAgain(i, d, resp, ok) ==
    LET r == VerifyNow(i, d, resp, ok)
    IN  VerifyCredit(inverters, r.credits, readings, r.satellite, r.audit, i, d, resp, ok)

IngestNow(i, lines) ==
    SessionClose(RunStream(StreamStart(inverters, readings, audit,
                                       rows_generator(i, lines), DEFAULT_BATCH_SIZE)))

\* C15: for an inverter id that does not exist, an upload of readings (of at
\* least one line), calculate and verify each fail and persist nothing: the
\* readings, the credits, the satellite rows and the audit log stay as they
\* were.
C15_UnknownInverterPersistsNothing ==
    \A i \in InverterIds, d \in CreditDates :
        ~InverterExists(inverters, i) =>
            /\ \A lines \in SeqsUpTo(CsvLines, MaxUploadLines) \ {<<>>} :
                   /\ IngestNow(i, lines).pc = "raised"
                   /\ IngestNow(i, lines).readings = readings
                   /\ IngestNow(i, lines).audit = audit
            /\ \A resp \in ProviderResponses(d), ok \in BOOLEAN :
                   /\ VerifyNow(i, d, resp, ok).raised = "ValueError"
                   /\ VerifyNow(i, d, resp, ok).credits = credits
                   /\ VerifyNow(i, d, resp, ok).satellite = satellite
                   /\ VerifyNow(i, d, resp, ok).audit = audit
            /\ CalculateNow(i, d) = credits

\* The provider answers, and its answer lacks the parameter or has no value for
\* the date: no item, an item under another key, or an item whose value is null.
NoUsableValue(resp) ==
    /\ resp.fetch_ok
    /\ \/ ~resp.has_parameter
       \/ \A n \in 1..Len(resp.entries) :
              resp.entries[n].key = "short" \/ resp.entries[n].kind = "null"

\* C16: when the provider response lacks the parameter or carries no usable
\* value for the date, verify (on a credit whose day has readings) returns with
\* the credit PENDING and a reason, the parse gives no reading of irradiance 0,
\* and no satellite row of irradiance 0 is stored.
C16_NoValueIsUnavailable ==
    \A i \in KnownIds, d \in CreditDates : \A resp \in ProviderResponses(d) :
        (ReachesProvider(i, d) /\ NoUsableValue(resp)) =>
            LET r == VerifyNow(i, d, resp, TRUE)
                c == r.credits[FirstCredit(credits, i, d)]
                parsed == parse_nasa_response(resp).readings
            IN  /\ r.raised = "no"
                /\ c.status = "PENDING"
                /\ c.flagged_reason # NoReason
                /\ \A n \in 1..Len(parsed) : parsed[n].irradiance # 0
                /\ \A row \in BagToSet(r.satellite) :
                       row.irradiance = 0 => CopiesIn(row, r.satellite) = CopiesIn(row, satellite)

\* The function the call is of, its k-th argument and whether it has returned.
Called(fn) == call # NoCall /\ call[1] = fn
Arg(k) == call[2][k]
HasReturned == result # NotReturned

\* C18: for every kWh value >= 0, calculate_co2_avoided(kWh) is kWh * 1.2 / 1000
\* tonnes, that is kWh * 12 ten-thousandths of a tonne (1000 kWh give 1.2
\* tonnes); and the tonnes of the credit calculate leaves for the day, created
\* or updated, are this function of the sum of the day's kWh.
C18_TonnesOfKwh ==
    /\ (Called("calculate_co2_avoided") /\ HasReturned) =>
           /\ result[1] = Arg(1) * 12
           /\ Arg(1) = 1000 => result[1] * 10 = 12 * 10000
    /\ (Called("calculate_daily_credit") /\ HasReturned) =>
           LET cs == result[1]
               k == FirstCredit(cs, 1, 1)
           IN  /\ k # 0
               /\ cs[k].tonnes = calculate_co2_avoided(SumSeq(Arg(2)))
               /\ cs[k].tonnes = SumSeq(Arg(2)) * 12

\* calculate has updated a VERIFIED credit of 0.0024 tonnes for a day whose
\* readings are 5, 1000 and 5 kWh: the credit holds 1.212 tonnes.
C18_Witness ==
    /\ Called("calculate_daily_credit") /\ HasReturned
    /\ Arg(1) = <<CarbonCredit(1, 1, 24, "VERIFIED")>>
    /\ Arg(2) = <<5, 1000, 5>>
    /\ result[1][1].tonnes = 12120
    /\ result[1][1].status = "VERIFIED"

\* The set of the key/value pairs of a payload.
Items(payload) == {payload[n] : n \in 1..Len(payload)}

\* C19: hash_payload does not depend on the order of insertion: the fingerprint
\* of a payload is the fingerprint of every payload with the same set of
\* key/value pairs, and hashing the same payload again gives it again.
C19_HashIgnoresKeyOrder ==
    (Called("hash_payload") /\ HasReturned) =>
        /\ hash_payload(Arg(1)) = result[1]
        /\ \A other \in Payloads :
               Items(other) = Items(Arg(1)) => hash_payload(other) = result[1]

\* The fingerprint of a payload whose three keys were inserted in the order
\* timestamp, kwh, inverter_id, which is not the order of the sorted keys.
C19_Witness ==
    /\ Called("hash_payload") /\ HasReturned
    /\ Arg(1) = << <<"timestamp", 2>>, <<"kwh", 1>>, <<"inverter_id", 1>> >>
    /\ result[1].sha256 = << <<"inverter_id", 1>>, <<"kwh", 1>>, <<"timestamp", 2>> >>
    /\ result[1].sha256 # Arg(1)

\* All the values of a series are the same: its variance is zero.
ZeroVariance(series) == \A a, b \in 1..Len(series) : series[a] = series[b]

\* C17: calculate_correlation returns 0 when a series is empty, when the
\* lengths differ, or when a series has zero variance; for every other pair of
\* series of the same length its result r satisfies 0 <= r <= 1.
C17_CorrelationRange ==
    (Called("calculate_correlation") /\ HasReturned) =>
        LET xs == Arg(1)
            ys == Arg(2)
            r == result[1]
        IN  IF Len(xs) = 0 \/ Len(ys) = 0 \/ Len(xs) # Len(ys)
               \/ ZeroVariance(xs) \/ ZeroVariance(ys)
            THEN r = FlZero
            ELSE FlLeq(FlZero, r) /\ FlLeq(r, FlOfInt(1))

\* C20: in every state reached by the requests that write credits (calculate,
\* verify, status override and direct creation), there is at most one credit
\* for any (inverter, date).
C20_OneCreditPerPair ==
    \A i \in InverterIds, d \in CreditDates : Cardinality(CreditsFor(credits, i, d)) <= 1

\* C21: after any sequence of uploads of readings and calculate calls, every
\* stored reading has kwh >= 0 and every credit has tonnes >= 0.
C21_EnergyNotNegative ==
    /\ \A r \in BagToSet(readings) : r.kwh >= 0
    /\ \A k \in 1..Len(credits) : credits[k].tonnes >= 0

\* C22: readings are append-only: no request (upload of readings, calculate,
\* verify, status override, inverter creation) updates or deletes a committed
\* reading; after every request each reading is stored at least as many times
\* as before it.
C22_ReadingsAppendOnly ==
    [][\A r \in BagToSet(readings) : CopiesIn(r, readings') >= CopiesIn(r, readings)]_vars

\* Three readings are stored and the credit of their day, calculated and
\* verified with an audit entry, has been marked SUBMITTED.
C22_Witness ==
    /\ BagCardinality(readings) = 3
    /\ Len(credits) = 1
    /\ credits[1].tonnes > 0
    /\ credits[1].status = "SUBMITTED"
    /\ credits[1].correlation # NoCorrelation
    /\ Len(CreditAudits(audit)) = 1

\* C23: the status-update request cannot change a credit from VERIFIED or
\* FLAGGED to PENDING: a step in which the status of a VERIFIED or FLAGGED
\* credit becomes PENDING is a step of verify.
C23_OnlyVerifyDowngrades ==
    [][\A k \in 1..Len(credits) :
           (credits[k].status \in {"VERIFIED", "FLAGGED"} /\ credits'[k].status = "PENDING")
           => Verify]_vars

\* A satellite reading of the place of the inverter and of the date is stored.
SatelliteStored(i, d) ==
    \E row \in BagToSet(satellite) : row.gps = inverters[i].gps /\ row.timestamp.day = d

\* C24: stored satellite readings act as a cache: when a satellite reading of
\* the inverter's place and the credit's date is stored, verify does not call
\* the provider; it ends the same whatever the provider would answer, and it
\* stores no further satellite reading.
C24_StoredSatelliteIsUsed ==
    \A i \in KnownIds, d \in CreditDates :
        (ReachesProvider(i, d) /\ SatelliteStored(i, d)) =>
            \A resp \in ProviderResponses(d), other \in ProviderResponses(d) :
                /\ VerifyNow(i, d, resp, TRUE).credits = VerifyNow(i, d, other, TRUE).credits
                /\ VerifyNow(i, d, resp, TRUE).satellite = satellite

\* C25: a calculate that commits on a credit it found, and whose readings give
\* another tonnage than the credit held when it was found, changes the tonnage
\* of the credit to the tonnage of the readings it read itself, whatever
\* readings a verify read, and leaves the status, the correlation and the
\* reason as they are committed: it checks no version and resets no status.
C25_CalculateKeepsVerdict ==
    [][\A t \in 1..MaxTasks :
           (tasks[t].pc = "found" /\ tasks'[t].pc = "returned" /\ tasks[t].credit # <<>>)
           => LET k == tasks[t].credit[1] IN
              /\ Len(credits') = Len(credits)
              /\ calculate_co2_avoided(tasks[t].total_kwh) # tasks[t].credit[2].tonnes
                     => credits'[k].tonnes = calculate_co2_avoided(tasks[t].total_kwh)
              /\ credits'[k].status = credits[k].status
              /\ credits'[k].correlation = credits[k].correlation
              /\ credits'[k].flagged_reason = credits[k].flagged_reason]_vars

\* A calculate read a day's total of 5 kWh; then the day grew to 15 kWh and a
\* verify flagged the credit for an output of 15.00 kWh; the calculate found
\* the FLAGGED credit and committed: the credit is FLAGGED for 15 kWh with the
\* tonnage of 5 kWh.
C25_Witness ==
    \E t \in 1..MaxTasks :
        /\ tasks[t].pc = "returned"
        /\ tasks[t].credit # <<>>
        /\ tasks[t].credit[2].status = "FLAGGED"
        /\ tasks[t].credit[2].flagged_reason.output = 1500
        /\ tasks[t].total_kwh = 5
        /\ TotalKwh(readings, tasks[t].inverter_id, tasks[t].credit_date) = 15
        /\ credits[tasks[t].credit[1]].status = "FLAGGED"
        /\ credits[tasks[t].credit[1]].flagged_reason.output = 1500
        /\ tasks[t].credit[2].tonnes = 180
        /\ credits[tasks[t].credit[1]].tonnes = 60

\* C28: two calculate calls for the same (inverter, date) that interleave at
\* their awaits, both finding no credit before either commits, leave at most
\* one credit for the (inverter, date) once both have returned.
C28_ConcurrentCalculatesOneCredit ==
    (\A t \in 1..MaxTasks : tasks[t].pc \in {"idle", "returned"})
    => AtMostOneCreditEach(credits)

RECURSIVE SumOfDay(_, _, _)
\* The kwh of the rows of inverter i on day d, added up row by row.
SumOfDay(rows, i, d) ==
    IF rows = <<>> THEN 0
    ELSE (IF Head(rows).inverter_id = i /\ Head(rows).timestamp.day = d
          THEN Head(rows).kwh ELSE 0)
         + SumOfDay(Tail(rows), i, d)

\* C26: the kWh total calculate converts to tonnage for (inverter, date) is
\* the sum of the readings of that inverter whose timestamp falls on that day,
\* each stored reading counted, from the first hour to the last; readings of
\* other inverters or other days do not contribute; without such a reading the
\* total is 0; and the tonnage of the credit is that of this total.
C26_DayTotal ==
    (Called("total_kwh") /\ HasReturned) =>
        LET rows == Arg(1)
            mine == SelectSeq(rows, LAMBDA r : r.inverter_id = Arg(2)
                                               /\ r.timestamp.day = Arg(3))
        IN  /\ result[1] = SumOfDay(rows, Arg(2), Arg(3))
            /\ result[1] = SumOfDay(mine, Arg(2), Arg(3))
            /\ mine = <<>> => result[1] = 0
            /\ CalculateCredits(<<>>, SeqToBag(rows), Arg(2), Arg(3))[1].tonnes
                   = calculate_co2_avoided(result[1])

\* The total of inverter 1 on day 1 over its reading of the last hour of the
\* day, stored twice, and a reading of inverter 2 at the same hour: 4 kWh.
C26_Witness ==
    /\ Called("total_kwh") /\ HasReturned
    /\ Arg(2) = 1 /\ Arg(3) = 1
    /\ Len(Arg(1)) = 3
    /\ Arg(1)[1] = Arg(1)[2]
    /\ Arg(1)[1].inverter_id = 1 /\ Arg(1)[1].timestamp.day = 1
    /\ Arg(1)[1].timestamp.hour = 23
    /\ Arg(1)[3].inverter_id = 2 /\ Arg(1)[3].timestamp = Arg(1)[1].timestamp
    /\ result[1] = 4

\* C27: during ingest_readings_stream the rows buffered in the batch, and the
\* rows of it added to the session and not yet committed, never number more
\* than batch_size; the loop does not go on to the next row with a full
\* buffer (it processes and commits it); every commit made inside the loop
\* commits exactly batch_size rows, and the commit of the rest after the loop,
\* which is the last, commits at least 1 row and fewer than batch_size.
C27_BatchBounded ==
    /\ [](/\ Len(batch) <= batch_size
          /\ Len(session_new.readings) <= Len(batch)
          /\ Len(session_new.audit) = Len(session_new.readings)
          /\ pc = "iterate" => Len(batch) < batch_size
          /\ pc = "process_rest" => (Len(batch) >= 1 /\ Len(batch) < batch_size))
    /\ [][commits' = commits + 1 =>
              LET added == Len(created') - Len(created) IN
              /\ added = BagCardinality(readings') - BagCardinality(readings)
              /\ added = Len(batch)
              /\ pc = "process" => (added = batch_size /\ pc' = "iterate" /\ batch' = <<>>)
              /\ pc = "process_rest" => (1 <= added /\ added < batch_size /\ pc' = "done")
              /\ pc \in {"process", "process_rest"}]_vars

\* A call with batch size 2 on three rows has returned after two commits, the
\* second of the one remaining row.
C27_Witness ==
    /\ pc = "returned"
    /\ batch_size = 2
    /\ Len(rows_iter.rows) = 3
    /\ commits = 2
    /\ Len(created) = 3
    /\ Len(batch) = 1

\* C29: verify on an existing credit whose date has no readings returns with
\* the credit PENDING and the reason 'no readings', and does nothing else: the
\* outcome is the same whatever the provider would answer (it is not called),
\* no satellite reading is stored, no audit entry is written, and the tonnage
\* and the correlation of the credit, and the other credits, are untouched.
C29_NoReadingsIsPending ==
    \A i \in KnownIds, d \in CreditDates :
        LET k == FirstCredit(credits, i, d) IN
        (InverterExists(inverters, i) /\ k # 0 /\ DayReadings(readings, i, d) = {}) =>
            \A resp \in ProviderResponses(d), ok \in BOOLEAN :
                LET r == VerifyNow(i, d, resp, ok) IN
                /\ r.raised = "no"
                /\ r.credits[k].status = "PENDING"
                /\ r.credits[k].flagged_reason = [kind |-> "no_readings"]
                /\ r.credits[k].tonnes = credits[k].tonnes
                /\ r.credits[k].correlation = credits[k].correlation
                /\ Len(r.credits) = Len(credits)
                /\ \A j \in 1..Len(credits) : j # k => r.credits[j] = credits[j]
                /\ r.satellite = satellite
                /\ r.audit = audit
                /\ r = VerifyNow(i, d, ProviderResponse(FALSE, FALSE, <<>>), TRUE)

\* A credit created VERIFIED with 0.0024 tonnes and correlation 1, for a day
\* without readings, has been verified: it is PENDING for 'no readings' with its
\* tonnage and correlation, no satellite reading is stored and the log holds
\* the entry of the inverter alone.
C29_Witness ==
    \E k \in 1..Len(credits) :
        /\ InverterExists(inverters, credits[k].inverter_id)
        /\ FirstCredit(credits, credits[k].inverter_id, credits[k].credit_date) = k
        /\ DayReadings(readings, credits[k].inverter_id, credits[k].credit_date) = {}
        /\ credits[k].status = "PENDING"
        /\ credits[k].flagged_reason = [kind |-> "no_readings"]
        /\ credits[k].tonnes = 24
        /\ credits[k].correlation = Coefficient(1, 1)
        /\ satellite = EmptyBag
        /\ Len(audit) = 1

\* The tags of the audit entries of verify and of inverter creation.
RecordAuditTags == {"credit_flagged", "credit_verified", "credit_pending", "inverter_created"}
\* The record an audit entry is about is committed: the inverter of its id with
\* the data of its hash, or the credit of its id.
RecordCommitted(a, invs, cs) ==
    IF a.action = "inverter_created"
    THEN /\ a.entity_id \in 1..Len(invs)
         /\ a.payload_hash = hash_payload(<< <<"gps_lat", invs[a.entity_id].gps[1]>>,
                                            <<"gps_lon", invs[a.entity_id].gps[2]>>,
                                            <<"capacity_kw", invs[a.entity_id].capacity_kw>> >>)
    ELSE a.entity_id \in 1..Len(cs)

\* C30: in verify and in inverter creation the record is committed before its
\* audit entry is written: every audit entry tagged credit_flagged,
\* credit_verified, credit_pending or inverter_created, written or about to be
\* written, is about a committed record; the step that commits the record
\* writes no audit entry, and for a credit the status it commits is the one of
\* the tag; the step that writes the entry changes no inverter and no credit;
\* and a failure between the two commits changes no table: the record stays
\* committed without an audit entry.
C30_RecordBeforeAudit ==
    /\ [](/\ \A n \in 1..Len(audit) :
                audit[n].action \in RecordAuditTags => RecordCommitted(audit[n], inverters, credits)
          /\ \A n \in 1..Len(unaudited) : RecordCommitted(unaudited[n], inverters, credits))
    /\ [][/\ \A n \in (Len(audit) + 1)..Len(audit') :
                audit'[n].action \in RecordAuditTags =>
                    /\ inverters' = inverters /\ credits' = credits
                    /\ \E m \in 1..Len(unaudited) : unaudited[m] = audit'[n]
                    /\ RecordCommitted(audit'[n], inverters, credits)
          /\ Len(unaudited') > Len(unaudited) =>
                LET a == unaudited'[Len(unaudited')] IN
                /\ audit' = audit
                /\ RecordCommitted(a, inverters', credits')
                /\ a.entity_type = "carbon_credit" =>
                       ActionOfStatus(credits'[a.entity_id].status) = a.action
          /\ (Len(unaudited') < Len(unaudited) /\ audit' = audit) =>
                (inverters' = inverters /\ credits' = credits /\ satellite' = satellite
                 /\ readings' = readings)]_vars

\* The inverter is committed and its audit entry was never written (the second
\* commit of its creation failed); its credit was flagged by a verify whose
\* entry is written; no request is between its commits.
C30_Witness ==
    /\ Len(inverters) = 1
    /\ unaudited = <<>>
    /\ \A n \in 1..Len(audit) : audit[n].action # "inverter_created"
    /\ \E n \in 1..Len(audit) : audit[n].action = "credit_flagged"
                                /\ credits[audit[n].entity_id].status = "FLAGGED"

\* The day's total is exactly the ceiling theoretical_kWh * 24 * 1.2.
AtCeiling(i, d, resp) == TotalKwh(readings, i, d) * 10000 = CeilingTimes10000(i, resp)

\* C31: a verify that returns with the credit FLAGGED had irradiance from the
\* provider and a day's total strictly above theoretical_kWh * 24 * 1.2; with a
\* total equal to the ceiling or below it, verify goes on to the correlation
\* step: the credit gets the computed correlation, VERIFIED or PENDING by the
\* threshold, never FLAGGED and never the reason of the fraud branch.
C31_FlaggedOnlyAboveCeiling ==
    \A i \in KnownIds, d \in CreditDates :
        \A resp \in ProviderResponses(d), store_ok \in BOOLEAN :
            LET r == VerifyNow(i, d, resp, store_ok)
                k == FirstCredit(credits, i, d)
            IN  /\ (r.raised = "no" /\ r.credits[k].status = "FLAGGED")
                   => (/\ ReachesProvider(i, d) /\ ReturnsIrradiance(resp)
                       /\ AboveCeiling(i, d, resp))
                /\ (/\ ReachesProvider(i, d) /\ ReturnsIrradiance(resp) /\ store_ok
                    /\ ~AboveCeiling(i, d, resp))
                   => /\ r.raised = "no"
                      /\ r.credits[k].status \in {"VERIFIED", "PENDING"}
                      /\ r.credits[k].status = "VERIFIED"
                         <=> MeetsThreshold(r.credits[k].correlation)
                      /\ r.credits[k].status = "PENDING"
                         => r.credits[k].flagged_reason.kind = "below_threshold"
                      /\ r.audit[Len(r.audit)].action \in {"credit_verified", "credit_pending"}

\* A credit whose day's total (12 kWh) is exactly the ceiling of a 10 kW
\* inverter under 1 kWh/m2/day is verified and is not FLAGGED.
C31_Witness ==
    \E i \in KnownIds, d \in CreditDates : \E resp \in ProviderResponses(d) :
        /\ ReachesProvider(i, d) /\ ReturnsIrradiance(resp) /\ AtCeiling(i, d, resp)
        /\ TotalKwh(readings, i, d) > 0
        /\ VerifyNow(i, d, resp, TRUE).raised = "no"
        /\ VerifyNow(i, d, resp, TRUE).credits[FirstCredit(credits, i, d)].status # "FLAGGED"

\* C32: every satellite reading that verify parsed from a provider response
\* and stored has irradiance >= 0, whatever number the provider returned.
C32_StoredIrradianceNotNegative ==
    \A r \in BagToSet(satellite) : r.irradiance >= 0

\* C33: once a streaming ingestion has returned (its batches are committed
\* and its readings refreshed, so that each has its persisted id), every
\* reading_ingested audit entry of the table carries an entity id: none is
\* left with the null id it was created with.
C33_ReadingAuditGetsEntityId ==
    Returned =>
        \A k \in DOMAIN audit :
            audit[k].action = "reading_ingested" => audit[k].entity_id # NoId

\* C34: no sequence of uploads, calculations and verifications brings a credit
\* to status VERIFIED (the reference profile of verify is flat, so that its
\* correlation with the profile of the readings is 0 in exact arithmetic).
C34_NeverVerified ==
    \A k \in DOMAIN credits : credits[k].status # "VERIFIED"

\* C35: in every state reached by uploads, calculations and verifications, a
\* credit with status FLAGGED has correlation 0 and a flagged reason, and a
\* credit with status VERIFIED has a correlation at or above the threshold and
\* no flagged reason.
C35_VerdictFields ==
    \A k \in DOMAIN credits :
        /\ credits[k].status = "FLAGGED"
           => /\ credits[k].correlation = FloatValue(FlZero)
              /\ credits[k].flagged_reason # NoReason
        /\ credits[k].status = "VERIFIED"
           => /\ credits[k].correlation # NoCorrelation
              /\ MeetsThresholdFloat(credits[k].correlation)
              /\ credits[k].flagged_reason = NoReason

\* A credit that was FLAGGED on an overcast day's value has been verified
\* again on a clear day's value and is VERIFIED, the satellite table holding
\* the rows of both runs.
C35_Witness ==
    \E k \in DOMAIN credits :
        /\ credits[k].status = "VERIFIED"
        /\ \E a \in DOMAIN audit : audit[a].action = "credit_flagged" /\ audit[a].entity_id = k
        /\ audit[Len(audit)].action = "credit_verified"

\* verify_credit, its correlation step in floating point, applied to the
\* tables of the state.
VerifyFloatNow(i, d, resp, ok) ==
    VerifyCreditFloat(inverters, credits, readings, satellite, audit, i, d, resp, ok)

\* verify returns from one of its early branches: the day has no readings, or
\* the provider call fails, or it gives no satellite data.
ReturnsEarly(i, d, resp, ok) ==
    /\ VerifyFloatNow(i, d, resp, ok).raised = "no"
    /\ \/ DayReadings(readings, i, d) = {}
       \/ ~ReturnsIrradiance(resp)

\* C36: a verify that returns from an early PENDING branch (no readings,
\* provider failure, no satellite data) changes nothing of the credits but the
\* status and the flagged reason of its credit, whose correlation stays what
\* the previous run left; and no verify, whatever its branch, changes the
\* tonnage of any credit.
C36_EarlyPendingFrame ==
    \A i \in KnownIds, d \in CreditDates :
        \A resp \in ProviderResponses(d) \cup DayResponses(d), ok \in BOOLEAN :
            LET r == VerifyFloatNow(i, d, resp, ok)
                k == FirstCredit(credits, i, d)
            IN  /\ DOMAIN r.credits = DOMAIN credits
                /\ \A j \in DOMAIN credits : r.credits[j].tonnes = credits[j].tonnes
                /\ ReturnsEarly(i, d, resp, ok)
                   => /\ r.credits[k].status = "PENDING"
                      /\ r.credits[k].flagged_reason # NoReason
                      /\ r.credits[k].correlation = credits[k].correlation
                      /\ r.credits = [credits EXCEPT
                                         ![k].status = "PENDING",
                                         ![k].flagged_reason = r.credits[k].flagged_reason]

\* A credit that a run verified with a correlation above the threshold went
\* through a run whose fetch failed: it is PENDING with the reason of the
\* failure and still has the correlation and the tonnage of before.
C36_Witness ==
    \E k \in DOMAIN credits :
        /\ credits[k].status = "PENDING"
        /\ credits[k].flagged_reason = [kind |-> "fetch_failed", error |-> "fetch"]
        /\ credits[k].correlation # NoCorrelation
        /\ MeetsThresholdFloat(credits[k].correlation)
        /\ credits[k].tonnes > 0
        /\ audit[Len(audit)].action = "credit_verified"

\* The call is under way.
Running == pc \in {"iterate", "process", "process_rest"}
\* Every row of the call is valid and for an existing inverter.
ValidRows ==
    \A j \in 1..Len(rows_iter.rows) :
        ~rows_iter.rows[j].raises /\ ~RowRaises(inverters, rows_iter.rows[j])
\* The readings of the rows of the call, in the order of the rows.
RowReadings == [j \in 1..Len(rows_iter.rows) |-> RowReading(rows_iter.rows[j])]

\* C37: a call of ingest_readings_stream on N valid rows for existing inverters
\* terminates: it returns, and when it has returned the N readings are
\* persisted and the list it returns holds exactly those N readings in the
\* order of the rows; with N = 0 it has made no commit and returns the empty
\* list.
C37_StreamTerminates ==
    /\ (Running /\ ValidRows) ~> Returned
    /\ [](Returned =>
            /\ ValidRows
            /\ readings = FirstReadings(Len(rows_iter.rows))
            /\ Len(created) = Len(rows_iter.rows)
            /\ \A j \in 1..Len(created) : created[j] = RowReadings[j]
            /\ Len(rows_iter.rows) = 0 => (commits = 0 /\ created = <<>>))

\* A call on four valid rows with batch size 2 has returned after two commits
\* with its four readings.
C37_Witness ==
    /\ pc = "returned"
    /\ ValidRows
    /\ Len(rows_iter.rows) = MaxStreamRows
    /\ batch_size = 2
    /\ commits = 2
    /\ Len(created) = MaxStreamRows
    /\ BagCardinality(readings) = MaxStreamRows

====
